---- MODULE Spec2Model ----
(***************************************************************************)
(* Model of the project-planning editor core: ProjectModel (model.py), the *)
(* reversible commands (commands.py), ProjectController (controller.py)    *)
(* and Layout (layout.py), driven through a QUndoStack.                    *)
(*                                                                         *)
(* Canvas coordinates are fixed-point integers: one canvas unit is Scale   *)
(* model units, so the controller's 0.01 epsilon is exactly 1.  Offsets    *)
(* along a side (0.0 .. 1.0 in the code) are in hundredths (0 .. 100), and *)
(* so is opacity.  Python's None is the integer None for numeric and id    *)
(* fields and the string "None" for string fields.                         *)
(* Pass-through payload fields of CanvasObject (text, text_align, notes,   *)
(* scope, risks) are never read by the controller and are left out.        *)
(***************************************************************************)
EXTENDS Integers, Sequences, FiniteSets, TLC

\* ---------------------------------------------------------------- bounds
MaxStack == 2
MaxSameStack == 1
MinWeek == 1
MaxWeek == 2

\* ------------------------------------------------------------- constants
Scale == 100
None == -1000000
CANVAS_ROW_ID == 0
DEFAULT_SIZE == 3
DEFAULT_WEEK_WIDTH == 24
LABEL_WIDTH == 200
TOPIC_ROW_HEIGHT == 40
DELIVERABLE_ROW_HEIGHT == 30
HEADER_HEIGHT == 80
TEXTBOX_MIN_WIDTH == 60
TEXTBOX_MIN_HEIGHT == 30
TEXTBOX_DEFAULT_OPACITY == 100
TEXTBOX_NEW_OPACITY == 90
CLASSIFICATION_SIZE_MIN == 8
CLASSIFICATION_SIZE_MAX == 48
CLASSIFICATION_SIZE_DEFAULT == 10
DEFAULT_CLASSIFICATION == "UNCLASSIFIED"
DEADLINE_DEFAULT_COLOR == "DEADLINE_DEFAULT_COLOR"
CONNECTOR_DEFAULT_COLOR == "CONNECTOR_DEFAULT_COLOR"
LINK_LINE_COLOR == "LINK_LINE_COLOR"
TEXTBOX_DEFAULT_COLOR == "TEXTBOX_DEFAULT_COLOR"
DEFAULT_TOPIC_COLORS ==
    <<"#4E79A7", "#F28E2B", "#E15759", "#76B7B2", "#59A14F",
      "#EDC949", "#AF7AA1", "#FF9DA7", "#9C755F", "#BAB0AC">>
ORIGIN_WEEK == 1
LABEL_RESIZE_MIN_WIDTH == 80

VARIABLES
    topics,         \* ProjectModel.topics: list of references to Topic objects
    theap,          \* the Topic objects ever constructed, by reference
    dheap,          \* the deliverables list objects, by reference
    objects,        \* ProjectModel.objects: dict, as its insertion-ordered values
    classification, \* ProjectModel.classification / classification_size
    stack,          \* QUndoStack: the entries (a macro is one entry of many commands)
    cursor,         \* QUndoStack.index(): entries 1..cursor are applied
    defaults,       \* ProjectController.connector_default_* / arrow_default_*
    act,            \* history: the last controller call, and what it pushed
    preView,        \* history: the model as it was before the last pushing call
    run,            \* history: the current run of undos followed by redos
    label_width,    \* Layout.label_width (scene.layout)
    origin          \* history: the model as it was when the stack was last empty

vars == <<topics, theap, dheap, objects, classification, stack, cursor,
          defaults, act, preView, run, label_width, origin>>

\* ---------------------------------------------------------------------------
\* generic helpers
\* ---------------------------------------------------------------------------
Max2(a, b) == IF a >= b THEN a ELSE b
Min2(a, b) == IF a <= b THEN a ELSE b
Abs(a) == IF a < 0 THEN -a ELSE a
Range(s) == {s[i] : i \in 1..Len(s)}
SeqFilter(s, Keep(_)) == SelectSeq(s, Keep)
RemoveAt(s, i) == SubSeq(s, 1, i - 1) \o SubSeq(s, i + 1, Len(s))
InsertAt(s, i, e) == SubSeq(s, 1, i - 1) \o <<e>> \o SubSeq(s, i, Len(s))
\* Python truthiness of an optional number: `v or d`
OrDefault(v, d) == IF v = None \/ v = 0 THEN d ELSE v
\* `v if v is not None else d`
IfNone(v, d) == IF v = None THEN d ELSE v
\* a dict of changes applied by dataclasses.replace(obj, **changes)
Replace(obj, changes) ==
    [f \in DOMAIN obj |-> IF f \in DOMAIN changes THEN changes[f] ELSE obj[f]]

\* ---------------------------------------------------------------------------
\* Python floats.  Where the code's result depends on the rounding of float
\* arithmetic the model computes in IEEE binary64: a float is a sign and a
\* magnitude written in base 2^LimbBits, least significant limb first, with
\* FractionLimbs limbs after the point, and every operation rounds its exact
\* result to SignificandBits significant binary digits, ties to even.  The
\* limbs after the point hold every value the layout arithmetic produces
\* without loss.
\* ---------------------------------------------------------------------------
SignificandBits == 53
LimbBits == 12
FractionLimbs == 9
IntegerLimbs == 2
Limbs == FractionLimbs + IntegerLimbs
Base == 2 ^ LimbBits

\* float(n) for an int n below Base^IntegerLimbs in magnitude
float_of_int(n) ==
    [neg |-> n < 0,
     limbs |-> [i \in 1..Limbs |->
                   IF i = FractionLimbs + 1 THEN Abs(n) % Base
                   ELSE IF i = FractionLimbs + 2 THEN Abs(n) \div Base
                   ELSE 0]]
IsZero(a) == \A i \in 1..Limbs : a[i] = 0

\* binary digits are counted from 1, the least significant digit of limb 1
BitLength(v) == CHOOSE k \in 0..LimbBits : v < 2 ^ k /\ (k = 0 \/ v >= 2 ^ (k - 1))
TopLimb(a) == IF IsZero(a) THEN 0 ELSE CHOOSE i \in 1..Limbs : a[i] # 0 /\ \A j \in (i + 1)..Limbs : a[j] = 0
TopBit(a) == IF IsZero(a) THEN 0 ELSE (TopLimb(a) - 1) * LimbBits + BitLength(a[TopLimb(a)])
LimbOf(p) == ((p - 1) \div LimbBits) + 1
PlaceOf(p) == 2 ^ ((p - 1) % LimbBits)
BitAt(a, p) == (a[LimbOf(p)] \div PlaceOf(p)) % 2
UnitAt(p) == [i \in 1..Limbs |-> IF i = LimbOf(p) THEN PlaceOf(p) ELSE 0]
\* the digits p and above kept, those below cleared
ClearBelow(a, p) ==
    [i \in 1..Limbs |->
        IF i < LimbOf(p) THEN 0
        ELSE IF i = LimbOf(p) THEN (a[i] \div PlaceOf(p)) * PlaceOf(p)
        ELSE a[i]]
AnyBelow(a, p) ==
    \/ \E i \in 1..(LimbOf(p) - 1) : a[i] # 0
    \/ a[LimbOf(p)] % PlaceOf(p) # 0

RECURSIVE AddFrom(_, _, _, _)
AddFrom(a, b, i, carry) ==
    IF i > Limbs THEN <<>>
    ELSE <<(a[i] + b[i] + carry) % Base>>
             \o AddFrom(a, b, i + 1, (a[i] + b[i] + carry) \div Base)
AddLimbs(a, b) == AddFrom(a, b, 1, 0)

\* a - b for a >= b
RECURSIVE SubFrom(_, _, _, _)
SubFrom(a, b, i, borrow) ==
    IF i > Limbs THEN <<>>
    ELSE <<(a[i] - b[i] - borrow + Base) % Base>>
             \o SubFrom(a, b, i + 1, IF a[i] - b[i] - borrow < 0 THEN 1 ELSE 0)
SubLimbs(a, b) == SubFrom(a, b, 1, 0)

LessLimbs(a, b) ==
    \E i \in 1..Limbs : a[i] < b[i] /\ \A j \in (i + 1)..Limbs : a[j] = b[j]

\* the exact magnitude (a, and more below it when sticky) rounded to
\* SignificandBits digits, ties to even
RoundLimbs(a, sticky) ==
    LET drop == TopBit(a) - SignificandBits
        below == sticky \/ (drop > 1 /\ AnyBelow(a, drop))
        up == BitAt(a, drop) = 1 /\ (below \/ BitAt(a, drop + 1) = 1)
    IN  IF drop <= 0 THEN a
        ELSE IF up THEN AddLimbs(ClearBelow(a, drop + 1), UnitAt(drop + 1))
        ELSE ClearBelow(a, drop + 1)

Signed(neg, a) == [neg |-> neg /\ ~IsZero(a), limbs |-> a]
float_neg(x) == Signed(~x.neg, x.limbs)
\* x + y
float_add(x, y) ==
    IF x.neg = y.neg THEN Signed(x.neg, RoundLimbs(AddLimbs(x.limbs, y.limbs), FALSE))
    ELSE IF LessLimbs(x.limbs, y.limbs)
         THEN Signed(y.neg, RoundLimbs(SubLimbs(y.limbs, x.limbs), FALSE))
    ELSE Signed(x.neg, RoundLimbs(SubLimbs(x.limbs, y.limbs), FALSE))
\* x - y
float_sub(x, y) == float_add(x, float_neg(y))

\* long division of a magnitude by a positive int
RECURSIVE DivFrom(_, _, _, _)
DivFrom(a, d, i, rem) ==
    IF i = 0 THEN [limbs |-> <<>>, rem |-> rem]
    ELSE LET lower == DivFrom(a, d, i - 1, (rem * Base + a[i]) % d)
         IN  [limbs |-> Append(lower.limbs, (rem * Base + a[i]) \div d), rem |-> lower.rem]
\* x / d for a positive int d
float_div(x, d) ==
    LET q == DivFrom(x.limbs, d, Limbs, 0)
    IN  Signed(x.neg, RoundLimbs(q.limbs, q.rem # 0))

IntPart(a) == a[FractionLimbs + 1] + Base * a[FractionLimbs + 2]
HasFraction(a) == \E i \in 1..FractionLimbs : a[i] # 0
\* int(x): towards zero
int_of_float(x) == IF x.neg THEN -IntPart(x.limbs) ELSE IntPart(x.limbs)
\* int(math.floor(x))
math_floor(x) ==
    IF x.neg /\ HasFraction(x.limbs) THEN -IntPart(x.limbs) - 1 ELSE int_of_float(x)
float_less(x, y) ==
    IF x.neg # y.neg THEN x.neg
    ELSE IF x.neg THEN LessLimbs(y.limbs, x.limbs)
    ELSE LessLimbs(x.limbs, y.limbs)
Half == [neg |-> FALSE, limbs |-> UnitAt(FractionLimbs * LimbBits)]

\* ---------------------------------------------------------------------------
\* model.py: CanvasObject, Topic, lookups
\* ---------------------------------------------------------------------------
CanvasObject(id, kind, row_id, start_week, end_week) ==
    [id |-> id, kind |-> kind, row_id |-> row_id,
     start_week |-> start_week, end_week |-> end_week,
     text_html |-> "None", notes_html |-> "None",
     scope_html |-> "None", risks_html |-> "None",
     color |-> DEFAULT_TOPIC_COLORS[1], size |-> DEFAULT_SIZE, z_index |-> 0,
     target_row_id |-> None, target_week |-> None, arrow_mid_week |-> None,
     arrow_head_start |-> FALSE, arrow_head_end |-> TRUE,
     arrow_direction |-> "none",
     x |-> None, y |-> None, width |-> None, height |-> None,
     opacity |-> TEXTBOX_DEFAULT_OPACITY,
     link_source_id |-> None, link_target_id |-> None,
     link_source_side |-> "None", link_source_offset |-> None,
     link_offset_x |-> None, link_offset_y |-> None,
     connector_source_id |-> None, connector_target_id |-> None,
     connector_source_side |-> "None", connector_source_offset |-> None,
     connector_target_side |-> "None", connector_target_offset |-> None]

\* str.strip().lower() on the strings the model hands it
StripLower(s) ==
    CASE s = " Right " -> "right"
      [] s = "LEFT" -> "left"
      [] s = "Up" -> "up"
      [] OTHER -> s

normalize_arrow_direction(value) ==
    LET direction == StripLower(IF value \in {"None", ""} THEN "none" ELSE value)
    IN  IF direction \in {"none", "left", "right"} THEN direction ELSE "none"

\* self.objects.get(obj_id): the position in the dict, 0 when absent
ObjIndexIn(objs, id) ==
    IF \E i \in 1..Len(objs) : objs[i].id = id
    THEN CHOOSE i \in 1..Len(objs) : objs[i].id = id
    ELSE 0
HasObjIn(objs, id) == ObjIndexIn(objs, id) # 0
GetObjIn(objs, id) == objs[ObjIndexIn(objs, id)]
ObjIds(objs) == {objs[i].id : i \in 1..Len(objs)}

\* ProjectModel.add_object: dict assignment appends a new key, keeps an old one in place
model_add_object(objs, obj) ==
    IF HasObjIn(objs, obj.id)
    THEN [objs EXCEPT ![ObjIndexIn(objs, obj.id)] = obj]
    ELSE Append(objs, obj)

model_update_object(objs, obj_id, new_obj) ==
    IF ~HasObjIn(objs, obj_id) THEN objs
    ELSE [objs EXCEPT ![ObjIndexIn(objs, obj_id)] = new_obj]

model_remove_object(objs, obj_id) ==
    IF ~HasObjIn(objs, obj_id) THEN objs
    ELSE RemoveAt(objs, ObjIndexIn(objs, obj_id))

\* ---------------------------------------------------------------------------
\* layout.py: Layout.  The scene rebuilds the layout on every rows_changed
\* signal (scene.py:68), so the layout is always a function of the topics.
\* ---------------------------------------------------------------------------
TopicValue(th, dh, ref) ==
    [id |-> th[ref].id, name |-> th[ref].name, color |-> th[ref].color,
     collapsed |-> th[ref].collapsed, deliverables |-> dh[th[ref].dl]]

RECURSIVE RebuildFrom(_, _, _, _, _)
RebuildFrom(ts, th, dh, i, y) ==
    IF i > Len(ts) THEN <<>>
    ELSE LET t == th[ts[i]]
             dels == IF t.collapsed THEN <<>> ELSE dh[t.dl]
             topic_row == [row_id |-> t.id, kind |-> "topic", y |-> y,
                           height |-> TOPIC_ROW_HEIGHT * Scale]
             y1 == y + TOPIC_ROW_HEIGHT * Scale
             deliverable_rows ==
                 [j \in 1..Len(dels) |->
                     [row_id |-> dels[j].id, kind |-> "deliverable",
                      y |-> y1 + (j - 1) * DELIVERABLE_ROW_HEIGHT * Scale,
                      height |-> DELIVERABLE_ROW_HEIGHT * Scale]]
         IN  <<topic_row>> \o deliverable_rows
               \o RebuildFrom(ts, th, dh, i + 1,
                              y1 + Len(dels) * DELIVERABLE_ROW_HEIGHT * Scale)

\* a layout that lists the deliverables of collapsed topics as well
RECURSIVE RebuildEvery(_, _, _, _, _)
RebuildEvery(ts, th, dh, i, y) ==
    IF i > Len(ts) THEN <<>>
    ELSE LET t == th[ts[i]]
             y1 == y + TOPIC_ROW_HEIGHT * Scale
         IN  <<[row_id |-> t.id, kind |-> "topic", y |-> y,
                height |-> TOPIC_ROW_HEIGHT * Scale]>>
               \o [j \in 1..Len(dh[t.dl]) |->
                      [row_id |-> dh[t.dl][j].id, kind |-> "deliverable",
                       y |-> y1 + (j - 1) * DELIVERABLE_ROW_HEIGHT * Scale,
                       height |-> DELIVERABLE_ROW_HEIGHT * Scale]]
               \o RebuildEvery(ts, th, dh, i + 1,
                               y1 + Len(dh[t.dl]) * DELIVERABLE_ROW_HEIGHT * Scale)
rebuild_expanded(ts, th, dh) == RebuildEvery(ts, th, dh, 1, 0)

rebuild(ts, th, dh) == RebuildFrom(ts, th, dh, 1, 0)

Layout == rebuild(topics, theap, dheap)

row_map(L) == {L[i].row_id : i \in 1..Len(L)}
RowOf(L, row_id) == L[CHOOSE i \in 1..Len(L) : L[i].row_id = row_id]
total_height(L) == IF Len(L) = 0 THEN 0 ELSE L[Len(L)].y + L[Len(L)].height
week_width == DEFAULT_WEEK_WIDTH * Scale
week_left_x(week) == label_width + (week - ORIGIN_WEEK) * week_width
week_center_x(week) == week_left_x(week) + (week_width \div 2)
row_top_y(L, row_id) == HEADER_HEIGHT * Scale + RowOf(L, row_id).y
row_center_y(L, row_id) ==
    HEADER_HEIGHT * Scale + RowOf(L, row_id).y + (RowOf(L, row_id).height \div 2)
row_height(L, row_id) == RowOf(L, row_id).height
row_end_positions(L) == [i \in 1..Len(L) |-> L[i].y + L[i].height]
\* bisect.bisect_left(a, x): the number of the elements of a before the first
\* one that is not below x
RECURSIVE BisectLeft(_, _, _, _)
BisectLeft(a, x, lo, hi) ==
    IF lo >= hi THEN lo
    ELSE LET mid == (lo + hi) \div 2
         IN  IF a[mid + 1] < x THEN BisectLeft(a, x, mid + 1, hi)
             ELSE BisectLeft(a, x, lo, mid)
bisect_left(a, x) == BisectLeft(a, x, 0, Len(a))
\* bisect.bisect_right(a, x), by halving, indices from 0
RECURSIVE BisectRight(_, _, _, _)
BisectRight(a, x, lo, hi) ==
    IF lo >= hi THEN lo
    ELSE LET mid == (lo + hi) \div 2
         IN  IF x < a[mid + 1] THEN BisectRight(a, x, lo, mid)
             ELSE BisectRight(a, x, mid + 1, hi)
bisect_right(a, x) == BisectRight(a, x, 0, Len(a))
\* heights are whole numbers of 1/Scale; scene_y - header_height is exact in
\* floats for the header and row heights of the program, so the comparisons
\* below are those of the code
row_at_y(L, scene_y) ==
    LET y_rel == scene_y - HEADER_HEIGHT * Scale
        index == bisect_right(row_end_positions(L), y_rel)
    IN  IF y_rel < 0 THEN None
        ELSE IF Len(L) = 0 THEN None
        ELSE IF index >= Len(L) THEN None
        ELSE IF L[index + 1].y <= y_rel /\ y_rel < L[index + 1].y + L[index + 1].height
             THEN L[index + 1].row_id
        ELSE None
\* week_from_x(x, snap=False): floor
week_from_x_floor(scene_x) ==
    ((scene_x - label_width) \div week_width) + ORIGIN_WEEK
\* week_left_x and week_from_x as the code computes them, in floats, for a
\* label width lw; week_width is the int DEFAULT_WEEK_WIDTH
float_week_left_x(lw, week) ==
    float_add(lw, float_of_int((week - ORIGIN_WEEK) * DEFAULT_WEEK_WIDTH))
float_week_from_x(lw, scene_x, snap) ==
    LET x_rel == float_sub(scene_x, lw)
        ratio == float_div(x_rel, DEFAULT_WEEK_WIDTH)
        week_offset ==
            IF snap
            THEN IF ~ratio.neg THEN int_of_float(float_add(ratio, Half))
                 ELSE int_of_float(float_sub(ratio, Half))
            ELSE math_floor(ratio)
    IN  week_offset + ORIGIN_WEEK
row_index(L, row_id) ==
    IF row_id \in row_map(L) THEN CHOOSE i \in 1..Len(L) : L[i].row_id = row_id ELSE 0
adjacent_row(L, row_id, direction) ==
    LET index == row_index(L, row_id)
    IN  IF index = 0 THEN None
        ELSE IF index + direction < 1 \/ index + direction > Len(L) THEN None
        ELSE L[index + direction].row_id

\* ---------------------------------------------------------------------------
\* controller.py: anchor geometry
\* ---------------------------------------------------------------------------
\* 0.5 + 0.1 * size clamped to [0.6, 1.0], in hundredths
size_scale(size) ==
    LET scale == 50 + 10 * size
    IN  IF scale < 60 THEN 60 ELSE IF scale > 100 THEN 100 ELSE scale

NoPoint == [ok |-> FALSE, x |-> 0, y |-> 0]
Point(px, py) == [ok |-> TRUE, x |-> px, y |-> py]

object_anchor_point(L, obj) ==
    IF obj.kind = "textbox" THEN
        LET width == IfNone(obj.width, TEXTBOX_MIN_WIDTH * Scale)
            height == IfNone(obj.height, TEXTBOX_MIN_HEIGHT * Scale)
            x == IfNone(obj.x, 0)
            y == IfNone(obj.y, 0)
        IN  Point(x + (width \div 2), y + (height \div 2))
    ELSE IF obj.kind = "milestone" THEN
        IF obj.row_id \notin row_map(L) THEN NoPoint
        ELSE Point(week_left_x(obj.start_week), row_center_y(L, obj.row_id))
    ELSE IF obj.kind = "circle" THEN
        IF obj.row_id \notin row_map(L) THEN NoPoint
        ELSE Point(week_center_x(obj.start_week), row_center_y(L, obj.row_id))
    ELSE IF obj.kind = "deadline" THEN
        Point(week_center_x(obj.start_week),
              HEADER_HEIGHT * Scale + (total_height(L) \div 2))
    ELSE IF obj.kind = "arrow" THEN
        IF obj.row_id \notin row_map(L) THEN NoPoint
        ELSE LET target_row == IfNone(obj.target_row_id, obj.row_id)
             IN  IF target_row \notin row_map(L) THEN NoPoint
                 ELSE LET start_x == week_center_x(obj.start_week)
                          start_y == row_center_y(L, obj.row_id)
                          target_week == IfNone(obj.target_week, obj.end_week)
                          end_x == week_center_x(target_week)
                          end_y == row_center_y(L, target_row)
                      IN  Point((start_x + end_x) \div 2, (start_y + end_y) \div 2)
    ELSE IF obj.row_id \notin row_map(L) THEN NoPoint
    ELSE LET rh == row_height(L, obj.row_id)
             height == (rh * size_scale(obj.size)) \div 100
             width == Max2(1, obj.end_week - obj.start_week + 1) * week_width
             x == week_left_x(obj.start_week)
             y == row_top_y(L, obj.row_id) + ((rh - height) \div 2)
         IN  Point(x + (width \div 2), y + (height \div 2))

\* float(offset or 0.5) clamped to [0, 1]
OffsetValue(offset) ==
    LET v == OrDefault(offset, 50)
    IN  IF v < 0 THEN 0 ELSE IF v > 100 THEN 100 ELSE v

textbox_anchor_point(obj, side, offset) ==
    LET width == IfNone(obj.width, TEXTBOX_MIN_WIDTH * Scale)
        height == IfNone(obj.height, TEXTBOX_MIN_HEIGHT * Scale)
        x == IfNone(obj.x, 0)
        y == IfNone(obj.y, 0)
        offset_value == OffsetValue(offset)
    IN  IF side = "left" THEN Point(x, y + ((height * offset_value) \div 100))
        ELSE IF side = "top" THEN Point(x + ((width * offset_value) \div 100), y)
        ELSE IF side = "bottom"
             THEN Point(x + ((width * offset_value) \div 100), y + height)
        ELSE Point(x + width, y + ((height * offset_value) \div 100))

textbox_pos_for_anchor(anchor_x, anchor_y, width, height, side, offset) ==
    LET offset_value == OffsetValue(offset)
    IN  IF side = "left"
        THEN Point(anchor_x, anchor_y - ((height * offset_value) \div 100))
        ELSE IF side = "top"
        THEN Point(anchor_x - ((width * offset_value) \div 100), anchor_y)
        ELSE IF side = "bottom"
        THEN Point(anchor_x - ((width * offset_value) \div 100), anchor_y - height)
        ELSE Point(anchor_x - width, anchor_y - ((height * offset_value) \div 100))

links_from_source(objs, source_id) ==
    SelectSeq(objs, LAMBDA o : o.kind = "link" /\ o.link_source_id = source_id)

links_for_target(objs, target_id, skip_sources) ==
    SelectSeq(objs, LAMBDA o : /\ o.kind = "link"
                               /\ o.link_target_id = target_id
                               /\ o.link_source_id # None
                               /\ o.link_source_id \notin skip_sources)

\* ---------------------------------------------------------------------------
\* items.py: what the scene draws for links and connectors
\* ---------------------------------------------------------------------------
NoRect == [ok |-> FALSE, x |-> 0, y |-> 0, width |-> 0, height |-> 0]
Rect(px, py, w, h) == [ok |-> TRUE, x |-> px, y |-> py, width |-> w, height |-> h]
NoPath == [drawn |-> FALSE, start |-> NoPoint, end |-> NoPoint]
Path(from, to) == [drawn |-> TRUE, start |-> from, end |-> to]

\* items._object_center_for_link: the branches of _object_anchor_point, but a
\* deadline is taken at the left edge of its week
object_center_for_link(L, obj) ==
    IF obj.kind = "textbox" THEN
        LET width == IfNone(obj.width, TEXTBOX_MIN_WIDTH * Scale)
            height == IfNone(obj.height, TEXTBOX_MIN_HEIGHT * Scale)
            x == IfNone(obj.x, 0)
            y == IfNone(obj.y, 0)
        IN  Point(x + (width \div 2), y + (height \div 2))
    ELSE IF obj.kind = "milestone" THEN
        IF obj.row_id \notin row_map(L) THEN NoPoint
        ELSE Point(week_left_x(obj.start_week), row_center_y(L, obj.row_id))
    ELSE IF obj.kind = "circle" THEN
        IF obj.row_id \notin row_map(L) THEN NoPoint
        ELSE Point(week_center_x(obj.start_week), row_center_y(L, obj.row_id))
    ELSE IF obj.kind = "deadline" THEN
        Point(week_left_x(obj.start_week),
              HEADER_HEIGHT * Scale + (total_height(L) \div 2))
    ELSE IF obj.kind = "arrow" THEN
        IF obj.row_id \notin row_map(L) THEN NoPoint
        ELSE LET target_row == IfNone(obj.target_row_id, obj.row_id)
             IN  IF target_row \notin row_map(L) THEN NoPoint
                 ELSE LET start_x == week_center_x(obj.start_week)
                          start_y == row_center_y(L, obj.row_id)
                          target_week == IfNone(obj.target_week, obj.end_week)
                          end_x == week_center_x(target_week)
                          end_y == row_center_y(L, target_row)
                      IN  Point((start_x + end_x) \div 2, (start_y + end_y) \div 2)
    ELSE IF obj.row_id \notin row_map(L) THEN NoPoint
    ELSE LET rh == row_height(L, obj.row_id)
             height == (rh * size_scale(obj.size)) \div 100
             width == Max2(1, obj.end_week - obj.start_week + 1) * week_width
             x == week_left_x(obj.start_week)
             y == row_top_y(L, obj.row_id) + ((rh - height) \div 2)
         IN  Point(x + (width \div 2), y + (height \div 2))

object_bounds_for_connector(L, obj) ==
    IF obj.kind \in {"link", "connector"} THEN NoRect
    ELSE IF obj.kind = "textbox" THEN
        Rect(IfNone(obj.x, 0), IfNone(obj.y, 0),
             IfNone(obj.width, TEXTBOX_MIN_WIDTH * Scale),
             IfNone(obj.height, TEXTBOX_MIN_HEIGHT * Scale))
    ELSE IF obj.kind \in {"milestone", "circle"} THEN
        IF obj.row_id \notin row_map(L) THEN NoRect
        ELSE LET size == (Min2(week_width, row_height(L, obj.row_id))
                            * size_scale(obj.size)) \div 100
                 half == size \div 2
                 center_x == IF obj.kind = "milestone" THEN week_left_x(obj.start_week)
                             ELSE week_center_x(obj.start_week)
                 center_y == row_center_y(L, obj.row_id)
             IN  Rect(center_x - half, center_y - half, size, size)
    ELSE IF obj.kind = "deadline" THEN
        LET width == Max2(1, obj.size) * Scale
        IN  Rect(week_left_x(obj.start_week) - (width \div 2), 0, width,
                 HEADER_HEIGHT * Scale + total_height(L))
    ELSE IF obj.kind = "arrow" THEN
        IF obj.row_id \notin row_map(L) THEN NoRect
        ELSE LET target_row == OrDefault(obj.target_row_id, obj.row_id)
             IN  IF target_row \notin row_map(L) THEN NoRect
                 ELSE LET start_x == week_center_x(obj.start_week)
                          start_y == row_center_y(L, obj.row_id)
                          end_x == week_center_x(IfNone(obj.target_week, obj.end_week))
                          end_y == row_center_y(L, target_row)
                      IN  Rect(Min2(start_x, end_x), Min2(start_y, end_y),
                               Max2(Scale, Abs(end_x - start_x)),
                               Max2(Scale, Abs(end_y - start_y)))
    ELSE IF obj.row_id \notin row_map(L) THEN NoRect
    ELSE LET rh == row_height(L, obj.row_id)
             height == (rh * size_scale(obj.size)) \div 100
         IN  Rect(week_left_x(obj.start_week),
                  row_top_y(L, obj.row_id) + ((rh - height) \div 2),
                  Max2(1, obj.end_week - obj.start_week + 1) * week_width,
                  height)

\* min(max(8.0, height * 0.35), max(1.0, width * 0.45))
arrow_tip_depth(width, height) ==
    Min2(Max2(8 * Scale, (height * 35) \div 100), Max2(Scale, (width * 45) \div 100))

anchor_point_for_bounds(bounds, side, offset, arrow_direction) ==
    LET offset_value == OffsetValue(offset)
        width == Max2(Scale, bounds.width)
        height == Max2(Scale, bounds.height)
        left == bounds.x
        top == bounds.y
        right == bounds.x + bounds.width
        bottom == bounds.y + bounds.height
        direction == normalize_arrow_direction(arrow_direction)
        depth == arrow_tip_depth(width, height)
        edge_factor == Abs((offset_value * 2) - 100)
        center_factor == 100 - edge_factor
    IN  IF side = "left" THEN
            Point(IF direction = "left" THEN left + ((depth * edge_factor) \div 100)
                  ELSE IF direction = "right"
                  THEN left + ((depth * center_factor) \div 100)
                  ELSE left,
                  top + ((height * offset_value) \div 100))
        ELSE IF side = "top" THEN Point(left + ((width * offset_value) \div 100), top)
        ELSE IF side = "bottom"
        THEN Point(left + ((width * offset_value) \div 100), bottom)
        ELSE Point(IF direction = "right" THEN right - ((depth * edge_factor) \div 100)
                   ELSE IF direction = "left"
                   THEN right - ((depth * center_factor) \div 100)
                   ELSE right,
                   top + ((height * offset_value) \div 100))

\* CanvasScene.connector_cache[obj.id]: the last points of the two ends
EmptyCache == [source |-> NoPoint, target |-> NoPoint]
EndPoint(L, end, side, offset) ==
    LET At(bounds) ==
            IF ~bounds.ok THEN NoPoint
            ELSE anchor_point_for_bounds(bounds, side, offset,
                     IF end.kind = "box" THEN end.arrow_direction ELSE "none")
    IN  At(object_bounds_for_connector(L, end))
\* ConnectorItem.sync_from_model: the path set and the cache entry left
connector_sync(L, objs, obj, cache) ==
    LET Ends(source, target) ==
            LET start_point == EndPoint(L, source, obj.connector_source_side,
                                        obj.connector_source_offset)
                end_point == EndPoint(L, target, obj.connector_target_side,
                                      obj.connector_target_offset)
                cached == [source |-> IF start_point.ok THEN start_point ELSE cache.source,
                           target |-> IF end_point.ok THEN end_point ELSE cache.target]
            IN  IF ~start_point.ok /\ ~end_point.ok
                THEN [path |-> NoPath, cache |-> cached]
                ELSE IF ~cached.source.ok \/ ~cached.target.ok
                THEN [path |-> NoPath, cache |-> cached]
                ELSE [path |-> Path(cached.source, cached.target), cache |-> cached]
    IN  IF obj.connector_source_id \in {None, 0} \/ obj.connector_target_id \in {None, 0}
        THEN [path |-> NoPath, cache |-> cache]
        ELSE IF \/ ~HasObjIn(objs, obj.connector_source_id)
                \/ ~HasObjIn(objs, obj.connector_target_id)
        THEN [path |-> NoPath, cache |-> cache]
        ELSE IF \/ GetObjIn(objs, obj.connector_source_id).kind \in {"link", "connector"}
                \/ GetObjIn(objs, obj.connector_target_id).kind \in {"link", "connector"}
        THEN [path |-> NoPath, cache |-> cache]
        ELSE Ends(GetObjIn(objs, obj.connector_source_id),
                  GetObjIn(objs, obj.connector_target_id))

\* LinkItem.sync_from_model: the path set
link_sync(L, objs, obj) ==
    LET Ends(source, target) ==
            LET start == textbox_anchor_point(source, obj.link_source_side,
                                              obj.link_source_offset)
                end == object_center_for_link(L, target)
            IN  IF ~end.ok THEN NoPath ELSE Path(start, end)
    IN  IF obj.link_source_id \in {None, 0} \/ obj.link_target_id \in {None, 0}
        THEN NoPath
        ELSE IF ~HasObjIn(objs, obj.link_source_id) \/ ~HasObjIn(objs, obj.link_target_id)
        THEN NoPath
        ELSE IF \/ GetObjIn(objs, obj.link_source_id).kind # "textbox"
                \/ GetObjIn(objs, obj.link_target_id).kind \in {"link", "connector"}
        THEN NoPath
        ELSE Ends(GetObjIn(objs, obj.link_source_id), GetObjIn(objs, obj.link_target_id))

next_z_index(objs) ==
    IF Len(objs) = 0 THEN 0
    ELSE (CHOOSE z \in {objs[i].z_index : i \in 1..Len(objs)} :
              \A i \in 1..Len(objs) : objs[i].z_index <= z) + 1

\* a clamp that moves a value towards the range by a tenth
StepIntoUnit(v) == IF v < 0 THEN v + 10 ELSE IF v > 100 THEN v - 10 ELSE v
\* the opacity kept as it was given
UnitAsGiven(v) == v
ClampUnit(v) == IF v < 0 THEN 0 ELSE IF v > 100 THEN 100 ELSE v
EmptyToNone(s) == IF s = "" THEN "None" ELSE s

\* an end week that is left as the caller gave it
GivenEndWeek(obj) == obj.end_week
\* if obj.kind in ("milestone", "circle", "deadline"): end_week = start_week
PointEndWeek(obj) == obj.start_week

normalize_object(obj0) ==
    LET ByKind(obj, common, heads) ==
            IF obj.kind \in {"milestone", "circle", "deadline"} THEN
                    Replace(Replace(Replace(obj, common), heads), [end_week |-> PointEndWeek(obj0)])
                ELSE IF obj.kind = "arrow" THEN
                    LET target_week == IfNone(obj.target_week, obj0.end_week)
                    IN  Replace(Replace(Replace(obj, common), heads),
                                [target_week |-> target_week, end_week |-> target_week])
                ELSE IF obj.kind = "link" THEN
                    Replace(Replace(obj, common),
                            [end_week |-> obj0.end_week,
                             link_offset_x |-> OrDefault(obj.link_offset_x, 0),
                             link_offset_y |-> OrDefault(obj.link_offset_y, 0),
                             link_source_offset |->
                                 IF obj.link_source_offset = None THEN None
                                 ELSE ClampUnit(obj.link_source_offset)])
                ELSE IF obj.kind = "connector" THEN
                    Replace(Replace(Replace(obj, common), heads),
                            [end_week |-> obj0.end_week,
                             connector_source_offset |->
                                 IF obj.connector_source_offset = None THEN None
                                 ELSE ClampUnit(obj.connector_source_offset),
                             connector_target_offset |->
                                 IF obj.connector_target_offset = None THEN None
                                 ELSE ClampUnit(obj.connector_target_offset)])
                ELSE IF obj.kind = "textbox" THEN
                    Replace(Replace(Replace(obj, common), heads),
                            [end_week |-> obj0.end_week,
                             x |-> OrDefault(obj.x, 0),
                             y |-> OrDefault(obj.y, 0),
                             width |-> Max2(TEXTBOX_MIN_WIDTH * Scale,
                                            OrDefault(obj.width, TEXTBOX_MIN_WIDTH * Scale)),
                             height |-> Max2(TEXTBOX_MIN_HEIGHT * Scale,
                                             OrDefault(obj.height, TEXTBOX_MIN_HEIGHT * Scale))])
                ELSE
                    Replace(Replace(Replace(obj, common), heads),
                            [end_week |-> IF obj0.end_week < obj0.start_week THEN obj0.start_week
                                          ELSE obj0.end_week])
    IN  ByKind(Replace(obj0, [text_html |-> EmptyToNone(obj0.text_html),
                              notes_html |-> EmptyToNone(obj0.notes_html),
                              scope_html |-> EmptyToNone(obj0.scope_html),
                              risks_html |-> EmptyToNone(obj0.risks_html),
                              arrow_direction |->
                                  IF obj0.kind # "box" THEN "none"
                                  ELSE normalize_arrow_direction(obj0.arrow_direction)]),
               [start_week |-> obj0.start_week,
                size |-> Max2(1, Min2(5, obj0.size)),
                opacity |-> ClampUnit(obj0.opacity)],
               [arrow_head_start |-> obj0.arrow_head_start,
                arrow_head_end |->
                    IF obj0.kind \in {"arrow", "connector"}
                       /\ ~(obj0.arrow_head_start \/ obj0.arrow_head_end)
                    THEN TRUE ELSE obj0.arrow_head_end])

\* a clone that is always put one week further
duplicate_offset_one(obj) == 1

duplicate_offset(obj) ==
    LET end_week == IfNone(obj.target_week, obj.end_week)
        span == Abs(end_week - obj.start_week) + 1
    IN  Max2(1, span)

\* ---------------------------------------------------------------------------
\* model.py: ProjectModel primitives on a model value
\*   M = [topics, theap, dheap, objects, classification]
\* Topic objects and their deliverables lists are mutated in place by the
\* code and are shared with the commands that hold them, so they live in
\* heaps (theap, dheap) and the model and the commands hold references.
\* List positions are the code's 0-based indexes.
\* ---------------------------------------------------------------------------
Model == [topics |-> topics, theap |-> theap, dheap |-> dheap,
          objects |-> objects, classification |-> classification]

\* list.insert(index, e): an index past the end appends
ListInsert(s, index, e) ==
    IF index = None \/ index >= Len(s) THEN Append(s, e)
    ELSE InsertAt(s, Max2(0, index) + 1, e)

TopicPos(M, topic_id) ==
    IF \E i \in 1..Len(M.topics) : M.theap[M.topics[i]].id = topic_id
    THEN CHOOSE i \in 1..Len(M.topics) :
            /\ M.theap[M.topics[i]].id = topic_id
            /\ \A j \in 1..(i - 1) : M.theap[M.topics[j]].id # topic_id
    ELSE 0

\* ProjectModel.get_topic: the reference, 0 for None
get_topic(M, topic_id) ==
    LET At(pos) == IF pos = 0 THEN 0 ELSE M.topics[pos]
    IN  At(TopicPos(M, topic_id))

Deliverables(M, ref) == M.dheap[M.theap[ref].dl]

model_update_topic(M, topic_id, new_topic) ==
    LET At(pos) == IF pos = 0 THEN M ELSE [M EXCEPT !.topics[pos] = new_topic]
    IN  At(TopicPos(M, topic_id))

model_insert_topic(M, topic, index) ==
    [M EXCEPT !.topics = ListInsert(M.topics, index, topic)]

model_remove_topic(M, topic_id) ==
    LET At(pos) == IF pos = 0 THEN M ELSE [M EXCEPT !.topics = RemoveAt(@, pos)]
    IN  At(TopicPos(M, topic_id))

\* an insertion that ignores the index and appends
model_append_deliverable(M, topic_id, deliverable, index) ==
    LET At(ref) ==
            IF ref = 0 THEN M
            ELSE [M EXCEPT !.dheap[M.theap[ref].dl] = Append(@, deliverable)]
    IN  At(get_topic(M, topic_id))

model_insert_deliverable(M, topic_id, deliverable, index) ==
    LET At(ref) ==
            IF ref = 0 THEN M
            ELSE [M EXCEPT !.dheap[M.theap[ref].dl] = ListInsert(@, index, deliverable)]
    IN  At(get_topic(M, topic_id))

\* ProjectModel.find_deliverable: first topic, first position holding the id
HoldsDeliverable(M, i, deliverable_id) ==
    \E d \in Range(Deliverables(M, M.topics[i])) : d.id = deliverable_id

FoundDeliverable(topic, dels, j) ==
    [found |-> TRUE, topic |-> topic, index |-> j - 1, deliverable |-> dels[j]]

FoundIn(topic, dels, deliverable_id) ==
    FoundDeliverable(topic, dels,
        CHOOSE j \in 1..Len(dels) :
            /\ dels[j].id = deliverable_id
            /\ \A k \in 1..(j - 1) : dels[k].id # deliverable_id)

find_deliverable(M, deliverable_id) ==
    IF \A i \in 1..Len(M.topics) : ~HoldsDeliverable(M, i, deliverable_id)
    THEN [found |-> FALSE, topic |-> 0, index |-> 0,
          deliverable |-> [id |-> None, name |-> ""]]
    ELSE LET AtTopic(ref) == FoundIn(ref, Deliverables(M, ref), deliverable_id)
         IN  AtTopic(M.topics[CHOOSE i \in 1..Len(M.topics) :
                 /\ HoldsDeliverable(M, i, deliverable_id)
                 /\ \A k \in 1..(i - 1) : ~HoldsDeliverable(M, k, deliverable_id)])

model_update_deliverable(M, deliverable_id, new_deliverable) ==
    LET At(f) ==
            IF ~f.found THEN M
            ELSE [M EXCEPT !.dheap[M.theap[f.topic].dl][f.index + 1] = new_deliverable]
    IN  At(find_deliverable(M, deliverable_id))

model_remove_deliverable(M, deliverable_id) ==
    LET At(f) ==
            IF ~f.found THEN M
            ELSE [M EXCEPT !.dheap[M.theap[f.topic].dl] = RemoveAt(@, f.index + 1)]
    IN  At(find_deliverable(M, deliverable_id))

model_move_deliverable(M, deliverable_id, new_index0) ==
    LET Move(f, new_index) ==
            IF new_index = f.index THEN M
            ELSE [M EXCEPT !.dheap[M.theap[f.topic].dl] =
                     InsertAt(RemoveAt(@, f.index + 1), new_index + 1, f.deliverable)]
        At(f) ==
            IF ~f.found THEN M
            ELSE Move(f, Max2(0, Min2(new_index0, Len(Deliverables(M, f.topic)) - 1)))
    IN  At(find_deliverable(M, deliverable_id))

\* a move to another topic that leaves the deliverable in its source topic
model_copy_deliverable_to_topic(M, deliverable_id, target_topic_id, target_index0) ==
    LET At(f, target) ==
            IF ~f.found \/ target = 0 THEN M
            ELSE IF M.theap[f.topic].id = target_topic_id THEN
                IF target_index0 = None THEN M
                ELSE model_move_deliverable(M, deliverable_id, target_index0)
            ELSE [M EXCEPT !.dheap[M.theap[target].dl] =
                     InsertAt(@, Max2(0, Min2(IfNone(target_index0, Len(@)), Len(@))) + 1,
                              f.deliverable)]
    IN  At(find_deliverable(M, deliverable_id), get_topic(M, target_topic_id))

model_move_deliverable_to_topic(M, deliverable_id, target_topic_id, target_index0) ==
    LET Insert(popped, target, deliverable) ==
            [popped EXCEPT !.dheap[M.theap[target].dl] =
                InsertAt(@, Max2(0, Min2(IfNone(target_index0, Len(@)), Len(@))) + 1,
                         deliverable)]
        At(f, target) ==
            IF ~f.found \/ target = 0 THEN M
            ELSE IF M.theap[f.topic].id = target_topic_id THEN
                IF target_index0 = None THEN M
                ELSE model_move_deliverable(M, deliverable_id, target_index0)
            ELSE Insert([M EXCEPT !.dheap[M.theap[f.topic].dl] =
                            RemoveAt(@, f.index + 1)],
                        target, f.deliverable)
    IN  At(find_deliverable(M, deliverable_id), get_topic(M, target_topic_id))

model_toggle_topic_collapsed(M, topic_id) ==
    LET At(ref) == IF ref = 0 THEN M ELSE [M EXCEPT !.theap[ref].collapsed = ~@]
    IN  At(get_topic(M, topic_id))

\* str.strip() on the classification texts the model enters
Strip(text) ==
    CASE text = " " -> ""
      [] text = " SECRET " -> "SECRET"
      [] OTHER -> text

normalize_classification(M, text, size) ==
    LET cleaned == IF Strip(text) = "" THEN DEFAULT_CLASSIFICATION ELSE Strip(text)
        size_value0 == IF size = None THEN M.classification.size ELSE size
        size_value == Max2(CLASSIFICATION_SIZE_MIN,
                           Min2(CLASSIFICATION_SIZE_MAX, size_value0))
    IN  [text |-> cleaned, size |-> size_value]

model_set_classification(M, text, size) ==
    [M EXCEPT !.classification = normalize_classification(M, text, size)]

M_add_object(M, obj) == [M EXCEPT !.objects = model_add_object(M.objects, obj)]
M_update_object(M, obj_id, new_obj) ==
    [M EXCEPT !.objects = model_update_object(M.objects, obj_id, new_obj)]
M_remove_object(M, obj_id) ==
    [M EXCEPT !.objects = model_remove_object(M.objects, obj_id)]

RECURSIVE RemoveAll(_, _)
RemoveAll(M, objs) ==
    IF Len(objs) = 0 THEN M
    ELSE RemoveAll(M_remove_object(M, Head(objs).id), Tail(objs))

RECURSIVE AddAll(_, _)
AddAll(M, objs) ==
    IF Len(objs) = 0 THEN M ELSE AddAll(M_add_object(M, Head(objs)), Tail(objs))

\* ---------------------------------------------------------------------------
\* commands.py: the QUndoCommand subclasses
\* ---------------------------------------------------------------------------
AddObjectCommand(obj) == [type |-> "AddObject", obj |-> obj]
RemoveObjectCommand(obj) == [type |-> "RemoveObject", obj |-> obj]
UpdateObjectCommand(old_obj, new_obj) ==
    [type |-> "UpdateObject", old_obj |-> old_obj, new_obj |-> new_obj]
UpdateClassificationCommand(old_text, old_size, new_text, new_size) ==
    [type |-> "UpdateClassification", old_text |-> old_text, old_size |-> old_size,
     new_text |-> new_text, new_size |-> new_size]
AddTopicCommand(topic) == [type |-> "AddTopic", topic |-> topic, index |-> None]
UpdateTopicCommand(old_topic, new_topic) ==
    [type |-> "UpdateTopic", old_topic |-> old_topic, new_topic |-> new_topic]
UpdateDeliverableCommand(old_deliverable, new_deliverable) ==
    [type |-> "UpdateDeliverable", old_deliverable |-> old_deliverable,
     new_deliverable |-> new_deliverable]
ToggleTopicCollapseCommand(topic_id, was_collapsed) ==
    [type |-> "ToggleTopicCollapse", topic_id |-> topic_id,
     was_collapsed |-> was_collapsed]
AddDeliverableCommand(topic_id, deliverable) ==
    [type |-> "AddDeliverable", topic_id |-> topic_id, deliverable |-> deliverable,
     index |-> None]
MoveDeliverableCommand(deliverable_id, old_index, new_index) ==
    [type |-> "MoveDeliverable", deliverable_id |-> deliverable_id,
     old_index |-> old_index, new_index |-> new_index]
MoveDeliverableAcrossTopicsCommand(deliverable_id, source_topic_id, source_index, target_topic_id, target_index) ==
    [type |-> "MoveDeliverableAcrossTopics", deliverable_id |-> deliverable_id,
     source_topic_id |-> source_topic_id, source_index |-> source_index,
     target_topic_id |-> target_topic_id, target_index |-> target_index]
RemoveDeliverableCommand(topic_id, deliverable, index, removed_objects) ==
    [type |-> "RemoveDeliverable", topic_id |-> topic_id, deliverable |-> deliverable,
     index |-> index, removed_objects |-> removed_objects]
RemoveTopicCommand(topic, index, removed_objects) ==
    [type |-> "RemoveTopic", topic |-> topic, index |-> index,
     removed_objects |-> removed_objects]

CommandRedo(M, c) ==
    CASE c.type = "AddObject" -> M_add_object(M, c.obj)
      [] c.type = "RemoveObject" -> M_remove_object(M, c.obj.id)
      [] c.type = "UpdateObject" -> M_update_object(M, c.old_obj.id, c.new_obj)
      [] c.type = "UpdateClassification" ->
            model_set_classification(M, c.new_text, c.new_size)
      [] c.type = "AddTopic" -> model_insert_topic(M, c.topic, c.index)
      [] c.type = "UpdateTopic" ->
            model_update_topic(M, M.theap[c.old_topic].id, c.new_topic)
      [] c.type = "UpdateDeliverable" ->
            model_update_deliverable(M, c.old_deliverable.id, c.new_deliverable)
      [] c.type = "ToggleTopicCollapse" -> model_toggle_topic_collapsed(M, c.topic_id)
      [] c.type = "AddDeliverable" ->
            model_insert_deliverable(M, c.topic_id, c.deliverable, c.index)
      [] c.type = "MoveDeliverable" ->
            model_move_deliverable(M, c.deliverable_id, c.new_index)
      [] c.type = "MoveDeliverableAcrossTopics" ->
            model_move_deliverable_to_topic(M, c.deliverable_id, c.target_topic_id,
                                            c.target_index)
      [] c.type = "RemoveDeliverable" ->
            model_remove_deliverable(RemoveAll(M, c.removed_objects), c.deliverable.id)
      [] c.type = "RemoveTopic" ->
            model_remove_topic(RemoveAll(M, c.removed_objects), M.theap[c.topic].id)

CommandUndo(M, c) ==
    CASE c.type = "AddObject" -> M_remove_object(M, c.obj.id)
      [] c.type = "RemoveObject" -> M_add_object(M, c.obj)
      [] c.type = "UpdateObject" -> M_update_object(M, c.old_obj.id, c.old_obj)
      [] c.type = "UpdateClassification" ->
            model_set_classification(M, c.old_text, c.old_size)
      [] c.type = "AddTopic" -> model_remove_topic(M, M.theap[c.topic].id)
      [] c.type = "UpdateTopic" ->
            model_update_topic(M, M.theap[c.old_topic].id, c.old_topic)
      [] c.type = "UpdateDeliverable" ->
            model_update_deliverable(M, c.old_deliverable.id, c.old_deliverable)
      [] c.type = "ToggleTopicCollapse" ->
            IF get_topic(M, c.topic_id) = 0 THEN M
            ELSE IF M.theap[get_topic(M, c.topic_id)].collapsed # c.was_collapsed
                 THEN model_toggle_topic_collapsed(M, c.topic_id)
                 ELSE M
      [] c.type = "AddDeliverable" -> model_remove_deliverable(M, c.deliverable.id)
      [] c.type = "MoveDeliverable" ->
            model_move_deliverable(M, c.deliverable_id, c.old_index)
      [] c.type = "MoveDeliverableAcrossTopics" ->
            model_move_deliverable_to_topic(M, c.deliverable_id, c.source_topic_id,
                                            c.source_index)
      [] c.type = "RemoveDeliverable" ->
            AddAll(model_insert_deliverable(M, c.topic_id, c.deliverable, c.index),
                   c.removed_objects)
      [] c.type = "RemoveTopic" ->
            AddAll(model_insert_topic(M, c.topic, c.index), c.removed_objects)

\* a stack entry is the sequence of commands of one push or of one macro:
\* QUndoStack redoes a macro's children first to last and undoes them last to first
\* a redo that stops after the first child of a macro
EntryRedoFirst(M, entry) ==
    IF Len(entry) = 0 THEN M ELSE CommandRedo(M, Head(entry))

RECURSIVE EntryRedo(_, _)
EntryRedo(M, entry) ==
    IF Len(entry) = 0 THEN M
    ELSE EntryRedo(CommandRedo(M, Head(entry)), Tail(entry))

RECURSIVE EntryUndo(_, _)
EntryUndo(M, entry) ==
    IF Len(entry) = 0 THEN M
    ELSE EntryUndo(CommandUndo(M, entry[Len(entry)]), SubSeq(entry, 1, Len(entry) - 1))

\* ---------------------------------------------------------------------------
\* QUndoStack, as the controller drives it.  A handler runs on a transaction
\*   T = [M, entries, depth, defaults]
\* push() executes the command at once; outside a macro it makes a new entry,
\* inside one it becomes a child of the open macro.  beginMacro() outside a
\* macro makes a new (so far empty) entry; nested macros are children too.
\* ---------------------------------------------------------------------------
Begin(M, d) == [M |-> M, entries |-> <<>>, depth |-> 0, defaults |-> d]

push(T, c) ==
    [T EXCEPT !.M = CommandRedo(T.M, c),
              !.entries = IF T.depth = 0 THEN Append(T.entries, <<c>>)
                          ELSE [T.entries EXCEPT ![Len(T.entries)] = Append(@, c)]]

beginMacro(T) ==
    [T EXCEPT !.entries = IF T.depth = 0 THEN Append(T.entries, <<>>) ELSE T.entries,
              !.depth = T.depth + 1]

endMacro(T) == [T EXCEPT !.depth = T.depth - 1]

RECURSIVE PushAll(_, _)
PushAll(T, cmds) ==
    IF Len(cmds) = 0 THEN T ELSE PushAll(push(T, Head(cmds)), Tail(cmds))

LayoutOf(M) == rebuild(M.topics, M.theap, M.dheap)

\* ---------------------------------------------------------------------------
\* controller.py: ProjectController
\* ---------------------------------------------------------------------------
add_object(T, obj0) ==
    LET obj1 == IF obj0.z_index = 0 /\ Len(T.M.objects) > 0
                THEN Replace(obj0, [z_index |-> next_z_index(T.M.objects)])
                ELSE obj0
    IN  push(T, AddObjectCommand(normalize_object(obj1)))

related_links(objs, obj_id) ==
    SelectSeq(objs, LAMBDA o : o.kind = "link"
                 /\ (o.link_source_id = obj_id \/ o.link_target_id = obj_id))

related_connectors(objs, obj_id) ==
    SelectSeq(objs, LAMBDA o : o.kind = "connector"
                 /\ (o.connector_source_id = obj_id \/ o.connector_target_id = obj_id))

RemoveCommands(objs) == [i \in 1..Len(objs) |-> RemoveObjectCommand(objs[i])]

\* a removal that leaves the links and connectors of the object behind
remove_object_alone(T, obj_id) ==
    IF ~HasObjIn(T.M.objects, obj_id) THEN T
    ELSE push(T, RemoveObjectCommand(GetObjIn(T.M.objects, obj_id)))

remove_object(T, obj_id) ==
    IF ~HasObjIn(T.M.objects, obj_id) THEN T
    ELSE LET obj == GetObjIn(T.M.objects, obj_id)
             links == related_links(T.M.objects, obj_id)
             connectors == related_connectors(T.M.objects, obj_id)
         IN  IF Len(links) > 0 \/ Len(connectors) > 0
             THEN endMacro(push(PushAll(PushAll(beginMacro(T), RemoveCommands(links)),
                                        RemoveCommands(connectors)),
                                RemoveObjectCommand(obj)))
             ELSE push(T, RemoveObjectCommand(obj))

RECURSIVE Flatten(_)
Flatten(lists) ==
    IF Len(lists) = 0 THEN <<>> ELSE Head(lists) \o Flatten(Tail(lists))

\* the (source, new_source) update of the textbox of one link to an edited
\* target, when it moves the textbox
TargetUpdate(source, link, new_target_point) ==
    LET Update(new_source) ==
            IF new_source # source THEN <<UpdateObjectCommand(source, new_source)>>
            ELSE <<>>
        MovedTo(pos, width) ==
            Update(normalize_object(Replace(source,
                [x |-> pos.x, y |-> pos.y,
                 start_week |-> week_from_x_floor(pos.x),
                 end_week |-> week_from_x_floor(pos.x + width)])))
        Anchored(width, height) ==
            MovedTo(textbox_pos_for_anchor(
                        new_target_point.x + OrDefault(link.link_offset_x, 0),
                        new_target_point.y + OrDefault(link.link_offset_y, 0),
                        width, height, link.link_source_side, link.link_source_offset),
                    width)
    IN  Anchored(IfNone(source.width, TEXTBOX_MIN_WIDTH * Scale),
                 IfNone(source.height, TEXTBOX_MIN_HEIGHT * Scale))

\* an edit of a target that leaves the textboxes linked to it where they are
TargetLeftAlone(M, target_links, new_obj) == <<>>
\* a cascade that does not look whether the target's anchor point resolved
TargetCascadeUnresolved(M, target_links, new_obj) ==
    LET PerLink(new_target_point) ==
            [i \in 1..Len(target_links) |->
                IF ~HasObjIn(M.objects, target_links[i].link_source_id) THEN <<>>
                ELSE IF GetObjIn(M.objects, target_links[i].link_source_id).kind
                            # "textbox"
                THEN <<>>
                ELSE TargetUpdate(GetObjIn(M.objects, target_links[i].link_source_id),
                                  target_links[i], new_target_point)]
    IN  IF Len(target_links) = 0 THEN <<>>
        ELSE Flatten(PerLink(object_anchor_point(LayoutOf(M), new_obj)))

TargetCascade(M, target_links, new_obj) ==
    LET PerLink(new_target_point) ==
            [i \in 1..Len(target_links) |->
                IF ~HasObjIn(M.objects, target_links[i].link_source_id) THEN <<>>
                ELSE IF GetObjIn(M.objects, target_links[i].link_source_id).kind
                            # "textbox"
                THEN <<>>
                ELSE TargetUpdate(GetObjIn(M.objects, target_links[i].link_source_id),
                                  target_links[i], new_target_point)]
        At(new_target_point) ==
            IF ~new_target_point.ok THEN <<>> ELSE Flatten(PerLink(new_target_point))
    IN  IF Len(target_links) = 0 THEN <<>>
        ELSE At(object_anchor_point(LayoutOf(M), new_obj))

\* the (link, new_link) update of one link leaving an edited textbox, when its
\* offset changes by more than 0.01
SourceUpdate(link, target_point, source_anchor) ==
    IF \/ Abs((source_anchor.x - target_point.x) - OrDefault(link.link_offset_x, 0)) > 1
       \/ Abs((source_anchor.y - target_point.y) - OrDefault(link.link_offset_y, 0)) > 1
    THEN <<UpdateObjectCommand(link,
              normalize_object(Replace(link,
                  [link_offset_x |-> source_anchor.x - target_point.x,
                   link_offset_y |-> source_anchor.y - target_point.y])))>>
    ELSE <<>>

SourceLink(L, objs, source, link) ==
    LET At(target_point) ==
            IF ~target_point.ok THEN <<>>
            ELSE SourceUpdate(link, target_point,
                              textbox_anchor_point(source, link.link_source_side,
                                                   link.link_source_offset))
    IN  IF link.link_target_id = None THEN <<>>
        ELSE IF ~HasObjIn(objs, link.link_target_id) THEN <<>>
        ELSE At(object_anchor_point(L, GetObjIn(objs, link.link_target_id)))

\* an edit of a textbox that leaves the offsets of its links as they are
SourceLeftAlone(M, source_links, source) == <<>>

SourceCascade(M, source_links, source) ==
    LET PerLink(L) ==
            [i \in 1..Len(source_links) |->
                SourceLink(L, M.objects, source, source_links[i])]
    IN  IF Len(source_links) = 0 THEN <<>> ELSE Flatten(PerLink(LayoutOf(M)))

NewDefaults(d, obj, new_obj, changes) ==
    [connector_size |-> IF obj.kind = "connector" /\ "size" \in DOMAIN changes
                        THEN new_obj.size ELSE d.connector_size,
     arrow_size |-> IF obj.kind = "arrow" /\ "size" \in DOMAIN changes
                    THEN new_obj.size ELSE d.arrow_size,
     connector_color |-> IF obj.kind \in {"connector", "arrow"}
                            /\ "color" \in DOMAIN changes
                         THEN new_obj.color ELSE d.connector_color,
     arrow_color |-> IF obj.kind = "arrow" /\ "color" \in DOMAIN changes
                     THEN new_obj.color ELSE d.arrow_color]

\* an update that pushes the primary edit and each cascaded edit on its own
update_object_apart(T, obj_id, changes, skip_anchor_sources, defer_link_updates) ==
    LET Edited(obj, new_obj) ==
            IF new_obj = obj THEN T
            ELSE PushAll(PushAll(push(T, UpdateObjectCommand(obj, new_obj)),
                                 TargetCascade(T.M,
                                     links_for_target(T.M.objects, obj_id,
                                                      skip_anchor_sources),
                                     new_obj)),
                         IF obj.kind = "textbox" /\ ~defer_link_updates
                         THEN SourceCascade(T.M, links_from_source(T.M.objects, obj_id),
                                            new_obj)
                         ELSE <<>>)
        Found(obj) == Edited(obj, normalize_object(Replace(obj, changes)))
    IN  IF ~HasObjIn(T.M.objects, obj_id) THEN T
        ELSE Found(GetObjIn(T.M.objects, obj_id))

\* an update that pushes without comparing the new object with the stored one
update_object_unchecked(T, obj_id, changes, skip_anchor_sources, defer_link_updates) ==
    LET Found(obj) ==
            push(T, UpdateObjectCommand(obj, normalize_object(Replace(obj, changes))))
    IN  IF ~HasObjIn(T.M.objects, obj_id) THEN T
        ELSE Found(GetObjIn(T.M.objects, obj_id))

update_object(T, obj_id, changes, skip_anchor_sources, defer_link_updates) ==
    LET Pushed(T1, obj, new_obj, updates, link_updates) ==
            IF Len(updates) > 0 \/ Len(link_updates) > 0
            THEN endMacro(PushAll(PushAll(push(beginMacro(T1),
                                               UpdateObjectCommand(obj, new_obj)),
                                          updates),
                                  link_updates))
            ELSE push(T1, UpdateObjectCommand(obj, new_obj))
        Edited(obj, new_obj) ==
            IF new_obj = obj THEN T
            ELSE Pushed([T EXCEPT !.defaults = NewDefaults(@, obj, new_obj, changes)],
                        obj, new_obj,
                        TargetCascade(T.M,
                            links_for_target(T.M.objects, obj_id, skip_anchor_sources),
                            new_obj),
                        IF obj.kind = "textbox" /\ ~defer_link_updates
                        THEN SourceCascade(T.M, links_from_source(T.M.objects, obj_id),
                                           new_obj)
                        ELSE <<>>)
        Found(obj) == Edited(obj, normalize_object(Replace(obj, changes)))
    IN  IF ~HasObjIn(T.M.objects, obj_id) THEN T
        ELSE Found(GetObjIn(T.M.objects, obj_id))

\* one (link, new_link) list per source id, in the order the ids are visited
RECURSIVE RefreshUpdates(_, _)
RefreshUpdates(M, source_ids) ==
    IF Len(source_ids) = 0 THEN <<>>
    ELSE LET source_id == Head(source_ids)
             rest == RefreshUpdates(M, Tail(source_ids))
         IN  IF ~HasObjIn(M.objects, source_id) THEN rest
             ELSE IF GetObjIn(M.objects, source_id).kind # "textbox" THEN rest
             ELSE SourceCascade(M, links_from_source(M.objects, source_id),
                                GetObjIn(M.objects, source_id)) \o rest

\* a refresh that opens its macro before it knows of an offset to write
refresh_anchor_offsets_always(T, source_ids) ==
    IF Len(source_ids) = 0 THEN T
    ELSE endMacro(PushAll(beginMacro(T), RefreshUpdates(T.M, source_ids)))

refresh_anchor_offsets(T, source_ids) ==
    LET link_updates == RefreshUpdates(T.M, source_ids)
    IN  IF Len(source_ids) = 0 THEN T
        ELSE IF Len(link_updates) = 0 THEN T
        ELSE endMacro(PushAll(beginMacro(T), link_updates))

AddOrNone(v, delta) == IF v = None THEN None ELSE v + delta

duplicate_object(T, obj_id, fresh_id) ==
    IF ~HasObjIn(T.M.objects, obj_id) THEN T
    ELSE LET obj == GetObjIn(T.M.objects, obj_id)
             width == OrDefault(obj.width, TEXTBOX_MIN_WIDTH * Scale)
             padding == Max2(10 * Scale, width \div 10)
             delta == duplicate_offset(obj)
         IN  IF obj.kind = "textbox"
             THEN add_object(T, Replace(obj,
                      [id |-> fresh_id,
                       x |-> OrDefault(obj.x, 0) + width + padding,
                       z_index |-> next_z_index(T.M.objects)]))
             ELSE add_object(T, Replace(obj,
                      [id |-> fresh_id,
                       start_week |-> obj.start_week + delta,
                       end_week |-> obj.end_week + delta,
                       target_week |-> AddOrNone(obj.target_week, delta),
                       arrow_mid_week |-> AddOrNone(obj.arrow_mid_week, delta),
                       z_index |-> next_z_index(T.M.objects)]))

\* Topic(id=new_id(), name=name, color=color): a new Topic object with its own list
NewTopic(M, id, name, color) ==
    [M EXCEPT !.theap = Append(M.theap, [id |-> id, name |-> name, color |-> color,
                                         collapsed |-> FALSE,
                                         dl |-> Len(M.dheap) + 1]),
              !.dheap = Append(M.dheap, <<>>)]

add_topic(T, name, fresh_id) ==
    LET color == DEFAULT_TOPIC_COLORS[(Len(T.M.topics) % Len(DEFAULT_TOPIC_COLORS)) + 1]
        T1 == [T EXCEPT !.M = NewTopic(T.M, fresh_id, name, color)]
    IN  push(T1, AddTopicCommand(Len(T1.M.theap)))

update_classification(T, text, size) ==
    LET new == normalize_classification(T.M, text, size)
        old == T.M.classification
    IN  IF new.text = old.text /\ new.size = old.size THEN T
        ELSE push(T, UpdateClassificationCommand(old.text, old.size, new.text, new.size))

\* update_topic(topic), with the Topic the dialogs build (main.py:2162, view.py:1666):
\* same id, collapsed flag and deliverables list object, a name and a colour
update_topic(T, topic_id, name, color) ==
    LET current == get_topic(T.M, topic_id)
        cur == T.M.theap[current]
        new_topic == [id |-> topic_id, name |-> name, color |-> color,
                      collapsed |-> cur.collapsed, dl |-> cur.dl]
        T1 == [T EXCEPT !.M.theap = Append(T.M.theap, new_topic)]
    IN  IF current = 0 THEN T
        ELSE IF cur = new_topic THEN T
        ELSE push(T1, UpdateTopicCommand(current, Len(T1.M.theap)))

update_deliverable(T, deliverable) ==
    LET found == find_deliverable(T.M, deliverable.id)
    IN  IF ~found.found THEN T
        ELSE IF found.deliverable = deliverable THEN T
        ELSE push(T, UpdateDeliverableCommand(found.deliverable, deliverable))

add_deliverable(T, topic_id, name, fresh_id) ==
    IF get_topic(T.M, topic_id) = 0 THEN T
    ELSE push(T, AddDeliverableCommand(topic_id, [id |-> fresh_id, name |-> name]))

toggle_topic_collapsed(T, topic_id) ==
    IF get_topic(T.M, topic_id) = 0 THEN T
    ELSE push(T, ToggleTopicCollapseCommand(topic_id,
                     T.M.theap[get_topic(T.M, topic_id)].collapsed))

\* move_deliverable putting a deliverable that leaves the top of its topic at
\* the start of the topic above
move_deliverable_front(T, deliverable_id, direction) ==
    LET found == find_deliverable(T.M, deliverable_id)
        topic == T.M.theap[found.topic]
        index == found.index
        topic_index == TopicPos(T.M, topic.id) - 1
        dels == Deliverables(T.M, found.topic)
    IN  IF ~found.found THEN T
        ELSE IF Len(dels) = 0 THEN T
        ELSE IF topic_index < 0 THEN T
        ELSE IF direction < 0 THEN
            IF index > 0
            THEN push(T, MoveDeliverableCommand(deliverable_id, index, index - 1))
            ELSE IF topic_index > 0
            THEN LET target == T.M.topics[topic_index]
                 IN  push(T, MoveDeliverableAcrossTopicsCommand(deliverable_id,
                              topic.id, index, T.M.theap[target].id,
                              0))
            ELSE T
        ELSE IF direction > 0 THEN
            IF index < Len(dels) - 1
            THEN push(T, MoveDeliverableCommand(deliverable_id, index, index + 1))
            ELSE IF topic_index < Len(T.M.topics) - 1
            THEN LET target == T.M.topics[topic_index + 2]
                 IN  push(T, MoveDeliverableAcrossTopicsCommand(deliverable_id,
                              topic.id, index, T.M.theap[target].id, 0))
            ELSE T
        ELSE T

move_deliverable(T, deliverable_id, direction) ==
    LET found == find_deliverable(T.M, deliverable_id)
        topic == T.M.theap[found.topic]
        index == found.index
        topic_index == TopicPos(T.M, topic.id) - 1
        dels == Deliverables(T.M, found.topic)
    IN  IF ~found.found THEN T
        ELSE IF Len(dels) = 0 THEN T
        ELSE IF topic_index < 0 THEN T
        ELSE IF direction < 0 THEN
            IF index > 0
            THEN push(T, MoveDeliverableCommand(deliverable_id, index, index - 1))
            ELSE IF topic_index > 0
            THEN LET target == T.M.topics[topic_index]
                 IN  push(T, MoveDeliverableAcrossTopicsCommand(deliverable_id,
                              topic.id, index, T.M.theap[target].id,
                              Len(Deliverables(T.M, target))))
            ELSE T
        ELSE IF direction > 0 THEN
            IF index < Len(dels) - 1
            THEN push(T, MoveDeliverableCommand(deliverable_id, index, index + 1))
            ELSE IF topic_index < Len(T.M.topics) - 1
            THEN LET target == T.M.topics[topic_index + 2]
                 IN  push(T, MoveDeliverableAcrossTopicsCommand(deliverable_id,
                              topic.id, index, T.M.theap[target].id, 0))
            ELSE T
        ELSE T

\* the objects drawn on the rows, without the arrows that only end on them
objects_starting_on_rows(M, row_ids) ==
    LET row_objects ==
            SelectSeq(M.objects, LAMBDA o : o.kind # "link" /\ o.row_id \in row_ids)
        row_object_ids == ObjIds(row_objects)
    IN  row_objects
          \o SelectSeq(M.objects, LAMBDA o : o.kind = "link"
                           /\ (o.link_source_id \in row_object_ids
                               \/ o.link_target_id \in row_object_ids))
          \o SelectSeq(M.objects, LAMBDA o : o.kind = "connector"
                           /\ (o.connector_source_id \in row_object_ids
                               \/ o.connector_target_id \in row_object_ids))

\* the objects on the rows, without the links and connectors that touch them
objects_on_rows(M, row_ids) ==
    SelectSeq(M.objects, LAMBDA o : o.kind # "link"
                 /\ (o.row_id \in row_ids \/ o.target_row_id \in row_ids))

objects_for_rows(M, row_ids) ==
    LET row_objects ==
            SelectSeq(M.objects, LAMBDA o : o.kind # "link"
                         /\ (o.row_id \in row_ids \/ o.target_row_id \in row_ids))
        row_object_ids == ObjIds(row_objects)
        link_objects ==
            SelectSeq(M.objects, LAMBDA o : o.kind = "link"
                         /\ (o.link_source_id \in row_object_ids
                             \/ o.link_target_id \in row_object_ids))
        connector_objects ==
            SelectSeq(M.objects, LAMBDA o : o.kind = "connector"
                         /\ (o.connector_source_id \in row_object_ids
                             \/ o.connector_target_id \in row_object_ids))
    IN  row_objects \o link_objects \o connector_objects

remove_deliverable(T, deliverable_id) ==
    LET found == find_deliverable(T.M, deliverable_id)
    IN  IF ~found.found THEN T
        ELSE push(T, RemoveDeliverableCommand(T.M.theap[found.topic].id,
                         found.deliverable, found.index,
                         objects_for_rows(T.M, {deliverable_id})))

remove_topic(T, topic_id) ==
    LET pos == TopicPos(T.M, topic_id)
        topic == T.M.topics[pos]
        row_ids == {topic_id} \cup {d.id : d \in Range(Deliverables(T.M, topic))}
    IN  IF pos = 0 THEN T
        ELSE push(T, RemoveTopicCommand(topic, pos - 1, objects_for_rows(T.M, row_ids)))

\* ProjectModel.topic_for_row: the colour of the topic owning the row
TopicColorForRow(M, row_id) ==
    LET Owns(i) == \/ M.theap[M.topics[i]].id = row_id
                   \/ \E d \in Range(Deliverables(M, M.topics[i])) : d.id = row_id
    IN  IF \E i \in 1..Len(M.topics) : Owns(i)
        THEN M.theap[M.topics[CHOOSE i \in 1..Len(M.topics) :
                 Owns(i) /\ \A k \in 1..(i - 1) : ~Owns(k)]].color
        ELSE DEFAULT_TOPIC_COLORS[1]

make_default_object(M, fresh_id, kind, row_id, start_week, end_week) ==
    LET color == IF kind = "deadline" THEN DEADLINE_DEFAULT_COLOR
                 ELSE TopicColorForRow(M, row_id)
        size == IF kind \in {"box", "text"} THEN 5 ELSE DEFAULT_SIZE
        obj == Replace(CanvasObject(fresh_id, kind, row_id, start_week, end_week),
                       [color |-> color, size |-> size,
                        z_index |-> next_z_index(M.objects)])
    IN  normalize_object(IF kind = "arrow"
                         THEN Replace(obj, [target_row_id |-> row_id,
                                            target_week |-> end_week])
                         ELSE obj)

make_textbox(M, fresh_id, x, y, width, height) ==
    normalize_object(Replace(CanvasObject(fresh_id, "textbox", CANVAS_ROW_ID, 0, 0),
        [color |-> TEXTBOX_DEFAULT_COLOR, size |-> DEFAULT_SIZE,
         z_index |-> next_z_index(M.objects),
         x |-> x, y |-> y, width |-> width, height |-> height,
         opacity |-> TEXTBOX_NEW_OPACITY]))

Sides == {"left", "right", "top", "bottom"}

LinkZIndex(source, target) ==
    LET z == Min2(source.z_index, target.z_index) - 1
    IN  IF z = 0 THEN -1 ELSE z

add_anchor_link(T, source_id, target_id, side, offset, fresh_id) ==
    IF ~HasObjIn(T.M.objects, source_id) \/ ~HasObjIn(T.M.objects, target_id) THEN T
    ELSE LET source == GetObjIn(T.M.objects, source_id)
             target == GetObjIn(T.M.objects, target_id)
             side_value == IF side \in Sides THEN side ELSE "right"
             offset_value == OffsetValue(offset)
             target_point == object_anchor_point(LayoutOf(T.M), target)
             source_anchor == textbox_anchor_point(source, side_value, offset_value)
             link_obj == Replace(CanvasObject(fresh_id, "link", CANVAS_ROW_ID, 0, 0),
                 [color |-> LINK_LINE_COLOR, size |-> DEFAULT_SIZE,
                  z_index |-> LinkZIndex(source, target),
                  link_source_id |-> source_id, link_target_id |-> target_id,
                  link_source_side |-> side_value,
                  link_source_offset |-> offset_value,
                  link_offset_x |-> source_anchor.x - target_point.x,
                  link_offset_y |-> source_anchor.y - target_point.y])
             existing_links == links_from_source(T.M.objects, source_id)
         IN  IF \/ source.kind # "textbox"
                \/ target.kind \in {"link", "textbox", "connector"}
                \/ source_id = target_id
             THEN T
             ELSE IF ~target_point.ok THEN T
             ELSE endMacro(add_object(PushAll(beginMacro(T),
                                              RemoveCommands(existing_links)),
                                      link_obj))

add_connector_arrow(T, source_id, target_id, source_side, source_offset, target_side, target_offset, fresh_id) ==
    IF ~HasObjIn(T.M.objects, source_id) \/ ~HasObjIn(T.M.objects, target_id) THEN T
    ELSE LET source == GetObjIn(T.M.objects, source_id)
             target == GetObjIn(T.M.objects, target_id)
             connector_obj ==
                 Replace(CanvasObject(fresh_id, "connector", CANVAS_ROW_ID, 0, 0),
                     [color |-> T.defaults.connector_color,
                      size |-> T.defaults.connector_size,
                      z_index |-> LinkZIndex(source, target),
                      connector_source_id |-> source_id,
                      connector_target_id |-> target_id,
                      connector_source_side |->
                          IF source_side \in Sides THEN source_side ELSE "right",
                      connector_source_offset |-> OffsetValue(source_offset),
                      connector_target_side |->
                          IF target_side \in Sides THEN target_side ELSE "left",
                      connector_target_offset |-> OffsetValue(target_offset)])
         IN  IF \/ source_id = target_id
                \/ source.kind \in {"link", "connector"}
                \/ target.kind \in {"link", "connector"}
             THEN T
             ELSE add_object(T, connector_obj)

\* sorted(objects.values(), key=(z_index, position in the dict)), as ids
RECURSIVE SortedIds(_)
SortedIds(objs) ==
    IF Len(objs) = 0 THEN <<>>
    ELSE LET i == CHOOSE i \in 1..Len(objs) :
                     \A j \in 1..Len(objs) :
                         \/ objs[i].z_index < objs[j].z_index
                         \/ (objs[i].z_index = objs[j].z_index /\ i <= j)
         IN  <<objs[i].id>> \o SortedIds(RemoveAt(objs, i))

ordered_object_ids(M) == SortedIds(M.objects)

RECURSIVE ApplyFrom(_, _, _)
ApplyFrom(T, ordered_ids, i) ==
    IF i > Len(ordered_ids) THEN T
    ELSE IF ~HasObjIn(T.M.objects, ordered_ids[i])
            \/ GetObjIn(T.M.objects, ordered_ids[i]).z_index = i - 1
         THEN ApplyFrom(T, ordered_ids, i + 1)
         ELSE ApplyFrom(update_object(T, ordered_ids[i], [z_index |-> i - 1], {}, FALSE),
                        ordered_ids, i + 1)

\* a reassignment that leaves the lowest object's z-index as it was
apply_z_order_above_first(T, ordered_ids) ==
    IF Len(ordered_ids) = 0 THEN T
    ELSE endMacro(ApplyFrom(beginMacro(T), ordered_ids, 2))

\* a reassignment without the macro around the updates
apply_z_order_apart(T, ordered_ids) == ApplyFrom(T, ordered_ids, 1)

apply_z_order(T, ordered_ids) ==
    IF Len(ordered_ids) = 0 THEN T
    ELSE endMacro(ApplyFrom(beginMacro(T), ordered_ids, 1))

Swap(s, i, j) == [s EXCEPT ![i] = s[j], ![j] = s[i]]

\* a pass that walks upwards, so that a swapped object is met again
RECURSIVE AscendingPass(_, _, _)
AscendingPass(order, selected_set, i) ==
    IF i >= Len(order) THEN order
    ELSE AscendingPass(IF order[i] \in selected_set /\ order[i + 1] \notin selected_set
                       THEN [order EXCEPT ![i] = order[i + 1], ![i + 1] = order[i]]
                       ELSE order,
                       selected_set, i + 1)
ForwardPassUp(order, selected_set, i) == AscendingPass(order, selected_set, 1)

\* for index in range(len(order) - 2, -1, -1): positions index+1, index+2 here
RECURSIVE ForwardPass(_, _, _)
ForwardPass(order, selected_set, i) ==
    IF i < 1 THEN order
    ELSE ForwardPass(IF order[i] \in selected_set /\ order[i + 1] \notin selected_set
                     THEN Swap(order, i, i + 1) ELSE order,
                     selected_set, i - 1)

\* for index in range(1, len(order)): positions index+1 and index here
RECURSIVE BackwardPass(_, _, _)
BackwardPass(order, selected_set, i) ==
    IF i > Len(order) THEN order
    ELSE BackwardPass(IF order[i] \in selected_set /\ order[i - 1] \notin selected_set
                      THEN Swap(order, i, i - 1) ELSE order,
                      selected_set, i + 1)

\* an order where "front" and "back" move the selected ids in the order the
\* ids were created, not in their drawing order
RECURSIVE AscendingIds(_)
AscendingIds(ids) ==
    IF ids = {} THEN <<>>
    ELSE LET least == CHOOSE id \in ids : \A other \in ids : id <= other
         IN  <<least>> \o AscendingIds(ids \ {least})
NewOrderByCreation(ordered_ids, selected_set, action) ==
    CASE action = "front" ->
            SelectSeq(ordered_ids, LAMBDA id : id \notin selected_set)
              \o AscendingIds(selected_set)
      [] action = "back" ->
            AscendingIds(selected_set)
              \o SelectSeq(ordered_ids, LAMBDA id : id \notin selected_set)
      [] action = "forward" ->
            ForwardPass(ordered_ids, selected_set, Len(ordered_ids) - 1)
      [] action = "backward" -> BackwardPass(ordered_ids, selected_set, 2)

NewOrder(ordered_ids, selected_set, action) ==
    CASE action = "front" ->
            SelectSeq(ordered_ids, LAMBDA id : id \notin selected_set)
              \o SelectSeq(ordered_ids, LAMBDA id : id \in selected_set)
      [] action = "back" ->
            SelectSeq(ordered_ids, LAMBDA id : id \in selected_set)
              \o SelectSeq(ordered_ids, LAMBDA id : id \notin selected_set)
      [] action = "forward" ->
            ForwardPass(ordered_ids, selected_set, Len(ordered_ids) - 1)
      [] action = "backward" -> BackwardPass(ordered_ids, selected_set, 2)

\* a reorder that goes on with no selected object left
reorder_objects_unguarded(T, obj_ids, action) ==
    LET selected_set == {id \in obj_ids : HasObjIn(T.M.objects, id)}
    IN  apply_z_order(T, NewOrder(ordered_object_ids(T.M), selected_set, action))

reorder_objects(T, obj_ids, action) ==
    LET selected_set == {id \in obj_ids : HasObjIn(T.M.objects, id)}
        ordered_ids == ordered_object_ids(T.M)
    IN  IF selected_set = {} THEN T
        ELSE IF action \notin {"front", "back", "forward", "backward"} THEN T
        ELSE apply_z_order(T, NewOrder(ordered_ids, selected_set, action))

\* ---------------------------------------------------------------------------
\* The state machine.  A profile P bounds one exploration: how many ids and
\* stack entries, and which inputs the user interface hands the controller.
\* ---------------------------------------------------------------------------
ObjectView(M) == Range(M.objects)
TopicsView(M) == [i \in 1..Len(M.topics) |-> TopicValue(M.theap, M.dheap, M.topics[i])]
View(M) == [topics |-> TopicsView(M), objects |-> ObjectView(M),
            classification |-> M.classification]

TopicIds(M) == {M.theap[M.topics[i]].id : i \in 1..Len(M.topics)}
DeliverableIds(M) ==
    UNION {{d.id : d \in Range(Deliverables(M, M.topics[i]))} : i \in 1..Len(M.topics)}

\* ProjectModel.__init__ and ProjectController.__init__
EmptyModel ==
    [topics |-> <<>>, theap |-> <<>>, dheap |-> <<>>, objects |-> <<>>,
     classification |-> [text |-> DEFAULT_CLASSIFICATION,
                         size |-> CLASSIFICATION_SIZE_DEFAULT]]
ControllerDefaults ==
    [connector_size |-> 1, connector_color |-> CONNECTOR_DEFAULT_COLOR,
     arrow_size |-> 1, arrow_color |-> CONNECTOR_DEFAULT_COLOR]

\* CanvasObject.to_dict then CanvasObject.from_dict, on the fields kept here
object_to_dict(obj) ==
    [obj EXCEPT !.arrow_direction =
        IF obj.kind = "box" THEN normalize_arrow_direction(obj.arrow_direction)
        ELSE "none"]
object_from_dict(data) ==
    [data EXCEPT
        !.color = IF data.color \in {"None", ""}
                  THEN (IF data.color = "None" /\ data.kind = "textbox"
                        THEN "#FFFFFF" ELSE DEFAULT_TOPIC_COLORS[1])
                  ELSE data.color,
        !.arrow_direction = IF data.kind # "box" THEN "none"
                            ELSE normalize_arrow_direction(data.arrow_direction)]

\* ProjectModel.to_dict then ProjectModel.from_dict: every topic is a new Topic
\* with a deliverable list of its own, objects keep their order
from_dict(M) ==
    [topics |-> [i \in 1..Len(M.topics) |-> i],
     theap |-> [i \in 1..Len(M.topics) |-> [M.theap[M.topics[i]] EXCEPT !.dl = i]],
     dheap |-> [i \in 1..Len(M.topics) |-> Deliverables(M, M.topics[i])],
     objects |-> [i \in 1..Len(M.objects) |->
                     object_from_dict(object_to_dict(M.objects[i]))],
     classification |->
         normalize_classification(EmptyModel, M.classification.text,
                                  M.classification.size)]

\* the schema version the program writes and reads
SCHEMA_VERSION == 1

\* a loader that takes a file without a schema version for a current one
load_project_unversioned(data) ==
    IF IfNone(data.schema_version, SCHEMA_VERSION) # SCHEMA_VERSION
    THEN [raised |-> TRUE, constructed |-> FALSE, model |-> EmptyModel,
          view_state |-> data.view]
    ELSE [raised |-> FALSE, constructed |-> TRUE, model |-> from_dict(data.model),
          view_state |-> data.view]

\* persistence.load_project on the parsed file data: ProjectModel.from_dict
\* raises ValueError on the schema version before it makes a ProjectModel
load_project(data) ==
    LET schema_version == IfNone(data.schema_version, 0)
    IN  IF schema_version # SCHEMA_VERSION
        THEN [raised |-> TRUE, constructed |-> FALSE, model |-> EmptyModel,
              view_state |-> data.view]
        ELSE [raised |-> FALSE, constructed |-> TRUE, model |-> from_dict(data.model),
              view_state |-> data.view]

\* MainWindow.__init__ (main.py:66-76) and _load_from_path (main.py:716-721):
\* the window shows a new project or one it saved earlier; the stack is empty
\* and the controller is new
InitWith(documents) ==
    /\ label_width = LABEL_WIDTH * Scale
    /\ \E M \in documents :
        /\ topics = M.topics
        /\ theap = M.theap
        /\ dheap = M.dheap
        /\ objects = M.objects
        /\ classification = M.classification
    /\ stack = <<>>
    /\ cursor = 0
    /\ defaults = ControllerDefaults
    /\ act = [name |-> "init", pushed |-> 0, id |-> 0, arg |-> 0]
    /\ preView = View(Model)
    /\ run = [undos |-> 0, redos |-> 0, base |-> View(Model)]
    /\ origin = View(Model)

\* new_id() returns a uuid and Topic(...) a new object.  Ids and references
\* are numbered in the order the stack's entries created them; pushing with the
\* cursor below the top deletes the entries above it, and the ids and objects
\* only they knew are numbered again (nothing can tell them from new ones).
MaxOf(S) == IF S = {} THEN 0 ELSE CHOOSE m \in S : \A n \in S : n <= m

ObjectIdsOf(objs) == {objs[i].id : i \in 1..Len(objs)}
TopicIdsOf(th, dh, ref) == {th[ref].id} \cup {d.id : d \in Range(dh[th[ref].dl])}

CommandIds(th, dh, c) ==
    CASE c.type \in {"AddObject", "RemoveObject"} -> {c.obj.id}
      [] c.type = "UpdateObject" -> {c.old_obj.id}
      [] c.type \in {"AddTopic", "RemoveTopic"} ->
            TopicIdsOf(th, dh, c.topic)
              \cup (IF c.type = "RemoveTopic" THEN ObjectIdsOf(c.removed_objects) ELSE {})
      [] c.type = "UpdateTopic" -> {th[c.old_topic].id}
      [] c.type = "AddDeliverable" -> {c.topic_id, c.deliverable.id}
      [] c.type = "RemoveDeliverable" ->
            {c.topic_id, c.deliverable.id} \cup ObjectIdsOf(c.removed_objects)
      [] c.type = "UpdateDeliverable" -> {c.old_deliverable.id}
      [] c.type = "ToggleTopicCollapse" -> {c.topic_id}
      [] c.type = "MoveDeliverable" -> {c.deliverable_id}
      [] c.type = "MoveDeliverableAcrossTopics" ->
            {c.deliverable_id, c.source_topic_id, c.target_topic_id}
      [] OTHER -> {}
CommandRefs(c) ==
    CASE c.type \in {"AddTopic", "RemoveTopic"} -> {c.topic}
      [] c.type = "UpdateTopic" -> {c.old_topic, c.new_topic}
      [] OTHER -> {}
EntriesIds(th, dh, entries) ==
    UNION {UNION {CommandIds(th, dh, entries[i][j]) : j \in 1..Len(entries[i])}
           : i \in 1..Len(entries)}
EntriesRefs(entries) ==
    UNION {UNION {CommandRefs(entries[i][j]) : j \in 1..Len(entries[i])}
           : i \in 1..Len(entries)}

Applied == SubSeq(stack, 1, cursor)
DocIds == TopicIds(Model) \cup DeliverableIds(Model) \cup ObjectIdsOf(objects)
nextId == MaxOf(DocIds \cup EntriesIds(theap, dheap, Applied))
KnownIds == 1..MaxOf(DocIds \cup EntriesIds(theap, dheap, stack))
LiveRefs == MaxOf(Range(topics) \cup EntriesRefs(Applied))
LiveLists == MaxOf({theap[r].dl : r \in 1..LiveRefs})

\* the model a handler starts from
Start == Begin([Model EXCEPT !.theap = SubSeq(theap, 1, LiveRefs),
                             !.dheap = SubSeq(dheap, 1, LiveLists)],
               defaults)

SetModel(M) ==
    /\ topics' = M.topics
    /\ theap' = M.theap
    /\ dheap' = M.dheap
    /\ objects' = M.objects
    /\ classification' = M.classification

\* the handler has returned: its entries are on the stack and the cursor is past them
Commit(P, returned, name, id, arg) ==
    \E T \in {returned} :
        /\ P.noops \/ Len(T.entries) > 0
        /\ cursor + Len(T.entries) <= P.stack
        /\ Len(T.entries) > 0 => (P.branch \/ cursor = Len(stack))
        /\ IF Len(T.entries) = 0
           THEN UNCHANGED <<topics, theap, dheap, objects, classification, stack,
                            cursor, defaults, preView, run>>
           ELSE /\ SetModel(T.M)
                /\ stack' = Applied \o T.entries
                /\ cursor' = cursor + Len(T.entries)
                /\ defaults' = T.defaults
                /\ preView' = View(Model)
                /\ run' = [undos |-> 0, redos |-> 0, base |-> View(T.M)]
        /\ act' = [name |-> name, pushed |-> Len(T.entries), id |-> id, arg |-> arg]
        /\ UNCHANGED <<label_width, origin>>

\* P.stack bounds the entries of the stack; unless P.branch, a session pushes
\* only with nothing left to redo
CanPush(P) == P.noops \/ (cursor < P.stack /\ (P.branch \/ cursor = Len(stack)))
CanCreate(P) == cursor < P.stack /\ (P.branch \/ cursor = Len(stack))
\* the ids a call is given: ids of the document, or (P.absent) any id ever issued
Candidates(P, live) == IF P.absent THEN KnownIds ELSE live

\* ---- topics and deliverables (main.py:2097-2327, view.py:1649-1740, scene.py:308)
\* Each action hands the handler the transaction S the call starts from and,
\* where the handler makes an id, the id new_id() returns.
AddTopic(P) ==
    /\ CanCreate(P)
    /\ LET Call(S, fresh_id) ==
               \E name \in P.names :
                   Commit(P, add_topic(S, name, fresh_id), "add_topic", fresh_id, name)
       IN  Call(Start, nextId + 1)

UpdateTopic(P) ==
    /\ CanPush(P)
    /\ LET Call(S) ==
               \E id \in Candidates(P, TopicIds(Model)), name \in P.names,
                  color \in P.colors :
                   Commit(P, update_topic(S, id, name, color), "update_topic", id,
                          [name |-> name, color |-> color])
       IN  Call(Start)

AddDeliverable(P) ==
    /\ CanCreate(P)
    /\ LET Call(S, fresh_id) ==
               \E id \in Candidates(P, TopicIds(Model)), name \in P.names :
                   Commit(P, add_deliverable(S, id, name, fresh_id), "add_deliverable",
                          id, name)
       IN  Call(Start, nextId + 1)

UpdateDeliverable(P) ==
    /\ CanPush(P)
    /\ LET Call(S) ==
               \E id \in Candidates(P, DeliverableIds(Model)), name \in P.names :
                   Commit(P, update_deliverable(S, [id |-> id, name |-> name]),
                          "update_deliverable", id, name)
       IN  Call(Start)

MoveDeliverable(P) ==
    /\ CanPush(P)
    /\ LET Call(S) ==
               \E id \in Candidates(P, DeliverableIds(Model)), direction \in {-1, 1} :
                   Commit(P, move_deliverable(S, id, direction), "move_deliverable",
                          id, direction)
       IN  Call(Start)

RemoveDeliverable(P) ==
    /\ CanPush(P)
    /\ LET Call(S) ==
               \E id \in Candidates(P, DeliverableIds(Model)) :
                   Commit(P, remove_deliverable(S, id), "remove_deliverable", id, 0)
       IN  Call(Start)

RemoveTopic(P) ==
    /\ CanPush(P)
    /\ LET Call(S) ==
               \E id \in Candidates(P, TopicIds(Model)) :
                   Commit(P, remove_topic(S, id), "remove_topic", id, 0)
       IN  Call(Start)

ToggleTopicCollapsed(P) ==
    /\ CanPush(P)
    /\ LET Call(S) ==
               \E id \in Candidates(P, TopicIds(Model)) :
                   Commit(P, toggle_topic_collapsed(S, id), "toggle_topic_collapsed",
                          id, 0)
       IN  Call(Start)

UpdateClassification(P) ==
    /\ CanPush(P)
    /\ LET Call(S) ==
               \E text \in P.classTexts, size \in P.classSizes :
                   Commit(P, update_classification(S, text, size),
                          "update_classification", 0, [text |-> text, size |-> size])
       IN  Call(Start)

\* ---- object creation (view.py:1291-1362, CanvasView._finish_create)
CreatedObject(M, d, fresh_id, kind, row, end_row, start_week, end_week, box) ==
    IF kind = "textbox" THEN
        Replace(make_textbox(M, fresh_id, box.x, box.y,
                             Max2(TEXTBOX_MIN_WIDTH * Scale, box.width),
                             Max2(TEXTBOX_MIN_HEIGHT * Scale, box.height)),
                [start_week |-> week_from_x_floor(box.x),
                 end_week |-> week_from_x_floor(box.x
                                 + Max2(TEXTBOX_MIN_WIDTH * Scale, box.width))])
    ELSE IF kind \in {"box", "text"} THEN
        make_default_object(M, fresh_id, kind, row, Min2(start_week, end_week),
                            Max2(start_week, end_week))
    ELSE IF kind \in {"milestone", "circle"} THEN
        make_default_object(M, fresh_id, kind, row, start_week, start_week)
    ELSE IF kind = "deadline" THEN
        make_default_object(M, fresh_id, kind, CANVAS_ROW_ID, start_week, start_week)
    ELSE \* arrow, drawn from (row, start_week) to (end_row, end_week)
        LET end == IF end_week = start_week /\ end_row = row
                   THEN start_week + 1 ELSE end_week
        IN  Replace(make_default_object(M, fresh_id, kind, row, start_week, end),
                    [target_row_id |-> end_row, target_week |-> end, end_week |-> end,
                     color |-> d.arrow_color, size |-> d.arrow_size])

AddObject(P) ==
    /\ CanCreate(P)
    /\ LET Call(S, fresh_id, rows) ==
               \E kind \in P.kinds, start_week \in P.weeks, span \in P.spans,
                  box \in P.boxes :
               \E row \in IF kind \in {"textbox", "deadline"} THEN {CANVAS_ROW_ID}
                          ELSE rows :
               \E end_row \in IF kind = "arrow" THEN rows ELSE {row} :
                   /\ kind = "textbox" => (start_week = MinWeek /\ span = 0)
                   /\ kind # "textbox" => box = CHOOSE b \in P.boxes : TRUE
                   /\ kind \in {"milestone", "circle", "deadline"} => span = 0
                   /\ Commit(P, add_object(S, CreatedObject(S.M, S.defaults, fresh_id,
                                    kind, row, end_row, start_week, start_week + span,
                                    box)),
                             "add_object", fresh_id, kind)
       IN  Call(Start, nextId + 1, row_map(Layout))

RemoveObject(P) ==
    /\ CanPush(P)
    /\ LET Call(S) ==
               \E id \in Candidates(P, ObjIds(objects)) :
                   Commit(P, remove_object(S, id), "remove_object", id, 0)
       IN  Call(Start)

DuplicateObject(P) ==
    /\ CanCreate(P)
    /\ LET Call(S, fresh_id) ==
               \E id \in Candidates(P, ObjIds(objects)) :
                   /\ HasObjIn(objects, id) =>
                         GetObjIn(objects, id).end_week
                             + duplicate_offset(GetObjIn(objects, id))
                                 <= MaxOf(P.window.weeks) + 1
                   /\ Commit(P, duplicate_object(S, id, fresh_id), "duplicate_object",
                             id, fresh_id)
       IN  Call(Start, nextId + 1)

AddAnchorLink(P) ==
    /\ CanCreate(P)
    /\ LET Call(S, fresh_id, ids) ==
               \E source_id \in ids, target_id \in ids,
                  side \in P.sides, offset \in P.offsets :
                   Commit(P, add_anchor_link(S, source_id, target_id, side, offset,
                                             fresh_id),
                          "add_anchor_link", source_id,
                          [target |-> target_id, side |-> side, offset |-> offset])
       IN  Call(Start, nextId + 1, Candidates(P, ObjIds(objects)))

AddConnectorArrow(P) ==
    /\ CanCreate(P)
    /\ LET Call(S, fresh_id, ids) ==
               \E source_id \in ids, target_id \in ids,
                  side \in P.sides, offset \in P.offsets :
                   Commit(P, add_connector_arrow(S, source_id, target_id, side, offset,
                                                 side, offset, fresh_id),
                          "add_connector_arrow", source_id,
                          [target |-> target_id, side |-> side, offset |-> offset])
       IN  Call(Start, nextId + 1, Candidates(P, ObjIds(objects)))

ReorderObjects(P) ==
    /\ CanPush(P)
    /\ LET Call(S, ids) ==
               \E sel \in (SUBSET ids) \ {{}}, action \in P.reorders :
                   /\ Cardinality(sel) <= P.maxSel
                   /\ Commit(P, reorder_objects(S, sel, action), "reorder_objects", 0,
                             [sel |-> sel, action |-> action])
       IN  Call(Start, Candidates(P, ObjIds(objects)))

\* ---- object edits
EmptyChanges == [f \in {} |-> 0]
Merge(f, g) ==
    [k \in (DOMAIN f) \cup (DOMAIN g) |-> IF k \in DOMAIN g THEN g[k] ELSE f[k]]
When(cond, changes) == IF cond THEN changes ELSE EmptyChanges

\* CanvasView._move_object (view.py:1188-1250): the changes of a keyboard nudge
MoveChanges(L, obj, delta_week, delta_row) ==
    IF obj.kind = "textbox" THEN
        LET new_x == OrDefault(obj.x, 0) + delta_week * week_width
            new_y == OrDefault(obj.y, 0) + delta_row * 20 * Scale
            width == OrDefault(obj.width, TEXTBOX_MIN_WIDTH * Scale)
        IN  [x |-> new_x, y |-> new_y,
             start_week |-> week_from_x_floor(new_x),
             end_week |-> week_from_x_floor(new_x + width)]
    ELSE
        LET target_week == IfNone(obj.target_week, obj.end_week)
            weeks == IF obj.kind = "arrow"
                     THEN Merge([start_week |-> obj.start_week + delta_week,
                                 target_week |-> target_week + delta_week,
                                 end_week |-> target_week + delta_week],
                                When(obj.arrow_mid_week # None,
                                     [arrow_mid_week |-> obj.arrow_mid_week + delta_week]))
                     ELSE [start_week |-> obj.start_week + delta_week,
                           end_week |-> obj.end_week + delta_week]
            new_row == adjacent_row(L, obj.row_id, delta_row)
            new_target == adjacent_row(L, IfNone(obj.target_row_id, obj.row_id),
                                       delta_row)
            rows == Merge(When(new_row # None, [row_id |-> new_row]),
                          When(obj.kind = "arrow" /\ new_target # None,
                               [target_row_id |-> new_target]))
        IN  Merge(When(delta_week # 0, weeks), When(delta_row # 0, rows))

Movable(obj) ==
    ~(\/ obj.kind \in {"link", "connector"}
      \/ (obj.kind = "arrow" /\ obj.connector_source_id # None
                             /\ obj.connector_target_id # None))

\* the object as the edit leaves it, used to keep the exploration in its window
InWindow(P, obj, changes) ==
    LET Within(new) ==
            IF obj.kind = "textbox"
            THEN new.x \in P.window.x /\ new.y \in P.window.y
            ELSE new.start_week \in P.window.weeks /\ new.end_week \in P.window.weeks
    IN  Within(normalize_object(Replace(obj, changes)))

MoveObject(P) ==
    /\ CanPush(P)
    /\ LET Moved(S, obj, changes) ==
               /\ changes # EmptyChanges
               /\ InWindow(P, obj, changes)
               /\ Commit(P, update_object(S, obj.id, changes, {}, FALSE),
                         "update_object", obj.id, changes)
           Call(S, L) ==
               \E obj \in Range(objects), delta \in P.nudges :
                   /\ Movable(obj)
                   /\ Moved(S, obj, MoveChanges(L, obj, delta[1], delta[2]))
       IN  Call(Start, Layout)

\* CanvasView._nudge_selected with more than one object selected
\* (view.py:1139-1180): one _move_object call per selected object, each given
\* the object as it was when the key was pressed, then refresh_anchor_offsets
\* for the selected textboxes.  selectedItems() has no particular order.
RECURSIVE MoveEach(_, _, _, _, _)
MoveEach(T, L, objs, delta_week, selected_ids) ==
    IF Len(objs) = 0 THEN T
    ELSE LET obj == Head(objs)
             changes == MoveChanges(L, obj, delta_week, 0)
             moved == IF ~Movable(obj) \/ changes = EmptyChanges THEN T
                      ELSE update_object(T, obj.id, changes, selected_ids, TRUE)
         IN  MoveEach(moved, L, Tail(objs), delta_week, selected_ids)

nudge_selected(T, L, objs, delta_week) ==
    IF Len(objs) <= 1 \/ delta_week = 0 THEN T
    ELSE LET selected_ids == {objs[i].id : i \in 1..Len(objs)}
             moved_textbox_ids ==
                 SelectSeq([i \in 1..Len(objs) |-> objs[i].id],
                           LAMBDA id : GetObjIn(T.M.objects, id).kind = "textbox")
         IN  refresh_anchor_offsets(MoveEach(T, L, objs, delta_week, selected_ids),
                                    moved_textbox_ids)

NudgeSelected(P) ==
    /\ CanPush(P)
    /\ LET Call(S, L) ==
               \E first, second \in Range(objects), delta \in P.nudges :
                   /\ first.id # second.id
                   /\ first.kind \notin {"link", "connector"}
                   /\ second.kind \notin {"link", "connector"}
                   /\ delta[2] = 0
                   /\ \A obj \in {first, second} :
                          Movable(obj) => InWindow(P, obj, MoveChanges(L, obj, delta[1], 0))
                   /\ Commit(P, nudge_selected(S, L, <<first, second>>, delta[1]),
                             "nudge_selected", 0,
                             [sel |-> {first.id, second.id}, delta_week |-> delta[1]])
       IN  Call(Start, Layout)

\* the calls of the same handler, one record per call: the objects before and
\* after it and the entries it pushed
CallRecord(id, called, T, after) ==
    [id |-> id, called |-> called, before |-> T.M.objects, after |-> after.M.objects,
     entries |-> SubSeq(after.entries, Len(T.entries) + 1, Len(after.entries))]
RECURSIVE MoveCalls(_, _, _, _, _)
MoveCalls(T, L, objs, delta_week, selected_ids) ==
    IF Len(objs) = 0 THEN <<>>
    ELSE LET obj == Head(objs)
             changes == MoveChanges(L, obj, delta_week, 0)
             called == Movable(obj) /\ changes # EmptyChanges
             moved == IF ~called THEN T
                      ELSE update_object(T, obj.id, changes, selected_ids, TRUE)
         IN  <<CallRecord(obj.id, called, T, moved)>>
               \o MoveCalls(moved, L, Tail(objs), delta_week, selected_ids)

NudgeCalls(P) ==
    /\ CanPush(P)
    /\ LET Call(S, L) ==
               \E first, second \in Range(objects), delta \in P.nudges :
                   /\ first.id # second.id
                   /\ first.kind \notin {"link", "connector"}
                   /\ second.kind \notin {"link", "connector"}
                   /\ delta[2] = 0
                   /\ \A obj \in {first, second} :
                          Movable(obj) => InWindow(P, obj, MoveChanges(L, obj, delta[1], 0))
                   /\ \A moved \in {MoveEach(S, L, <<first, second>>, delta[1],
                                              {first.id, second.id})} :
                        \A done \in {nudge_selected(S, L, <<first, second>>, delta[1])} :
                          Commit(P, done, "nudge_selected", 0,
                                 [sel |-> {first.id, second.id}, delta_week |-> delta[1],
                                  calls |-> MoveCalls(S, L, <<first, second>>, delta[1],
                                                      {first.id, second.id}),
                                  refresh |-> CallRecord(0,
                                      \E obj \in {first, second} : obj.kind = "textbox",
                                      moved, done)])
       IN  Call(Start, Layout)

\* inspector edits (inspector.py:347-531) and update_object(id, {})
EditObject(P) ==
    /\ CanPush(P)
    /\ LET Call(S) ==
               \E id \in Candidates(P, ObjIds(objects)), changes \in P.edits :
                   Commit(P, update_object(S, id, changes, {}, FALSE), "update_object",
                          id, changes)
       IN  Call(Start)

\* ---- dragging the edge of the label column: CanvasView._apply_label_resize
\* (view.py:1372-1389) calls CanvasScene.shift_textboxes (scene.py:115-125),
\* which assigns to model.objects, and then set_label_width (scene.py:103-113)
\* width = max(LABEL_RESIZE_MIN_WIDTH, pos.x() / scale) for the viewport
\* position pos_x (an int) and the zoom scale = zoom[1] / zoom[2]
resized_label_width(pos_x, zoom) ==
    LET width == float_div(float_of_int(pos_x * zoom[2]), zoom[1])
    IN  IF float_less(width, float_of_int(LABEL_RESIZE_MIN_WIDTH))
        THEN float_of_int(LABEL_RESIZE_MIN_WIDTH)
        ELSE width

shift_textboxes(objs, delta) ==
    IF Abs(delta) < 1 THEN objs
    ELSE [i \in 1..Len(objs) |->
             IF objs[i].kind # "textbox" THEN objs[i]
             ELSE [objs[i] EXCEPT !.x = IfNone(objs[i].x, 0) + delta]]

LabelResize(P) ==
    \E x \in P.labels :
        \E width \in {Max2(LABEL_RESIZE_MIN_WIDTH * Scale, x)} :
            /\ Abs(label_width - width) >= Scale \div 2
            /\ objects' = shift_textboxes(objects, width - label_width)
            /\ label_width' = width
            /\ UNCHANGED <<topics, theap, dheap, classification, stack, cursor,
                           defaults, preView>>
            /\ act' = [name |-> "label_resize", pushed |-> 0, id |-> 0, arg |-> width]
            /\ origin' = IF Len(stack) = 0 THEN View(Model)' ELSE origin
            /\ run' = [undos |-> 0, redos |-> 0, base |-> View(Model)']

\* ---- QUndoStack.undo() / redo() (the actions of main.py:186-188)
Undo ==
    /\ cursor > 0
    /\ SetModel(EntryUndo(Model, stack[cursor]))
    /\ cursor' = cursor - 1
    /\ act' = [name |-> "undo", pushed |-> 0, id |-> 0, arg |-> 0]
    /\ run' = IF run.redos = 0 THEN [run EXCEPT !.undos = @ + 1]
              ELSE [undos |-> 1, redos |-> 0, base |-> View(Model)]
    /\ UNCHANGED <<stack, defaults, preView, label_width, origin>>

Redo ==
    /\ cursor < Len(stack)
    /\ SetModel(EntryRedo(Model, stack[cursor + 1]))
    /\ cursor' = cursor + 1
    /\ act' = [name |-> "redo", pushed |-> 0, id |-> 0, arg |-> 0]
    /\ run' = IF run.redos < run.undos THEN [run EXCEPT !.redos = @ + 1]
              ELSE [undos |-> 0, redos |-> 0,
                    base |-> View(EntryRedo(Model, stack[cursor + 1]))]
    /\ UNCHANGED <<stack, defaults, preView, label_width, origin>>

\* ---------------------------------------------------------------------------
\* Documents saved by earlier sessions: what the handlers make of a new project
\* ---------------------------------------------------------------------------
Box(x, y, width, height) == [x |-> x, y |-> y, width |-> width, height |-> height]
NoteBox == Box(300 * Scale, 200 * Scale, 60 * Scale, 30 * Scale)

\* a step of building a document: the session so far is computed once and the
\* handler runs on that value
Once(T, Handler(_)) == CHOOSE after \in {Handler(before) : before \in {T}} : TRUE

NewSession == Begin(EmptyModel, ControllerDefaults)
Created(T, fresh_id, kind, row, end_row, start_week, end_week) ==
    add_object(T, CreatedObject(T.M, T.defaults, fresh_id, kind, row, end_row,
                                start_week, end_week, NoteBox))

\* topic Alpha with deliverables Design and Build, topic Beta; a box on the
\* Design row and a textbox
Plan1 == add_topic(NewSession, "Alpha", 1)
Plan2 ==
    Once(Plan1, LAMBDA T : add_deliverable(T, 1, "Design", 2))
Plan3 ==
    Once(Plan2, LAMBDA T : add_deliverable(T, 1, "Build", 3))
Plan4 ==
    Once(Plan3, LAMBDA T : add_topic(T, "Beta", 4))
Plan5 ==
    Once(Plan4, LAMBDA T : Created(T, 5, "box", 2, 2, MinWeek, MinWeek))
Plan6 ==
    Once(Plan5, LAMBDA T : Created(T, 6, "textbox", CANVAS_ROW_ID, CANVAS_ROW_ID, MinWeek, MinWeek))
PlanDocument == Once(Plan6, LAMBDA T : from_dict(T.M))

\* topic Alpha with deliverables Design and Build, topic Beta; a box on the
\* Build row, a textbox linked to the box, and a connector from the box to the
\* textbox
Linked5 ==
    Once(Plan4, LAMBDA T : Created(T, 5, "box", 3, 3, MinWeek, MinWeek))
Linked6 ==
    Once(Linked5, LAMBDA T : Created(T, 6, "textbox", CANVAS_ROW_ID, CANVAS_ROW_ID, MinWeek, MinWeek))
Linked7 ==
    Once(Linked6, LAMBDA T : add_anchor_link(T, 6, 5, "left", 50, 7))
Linked8 ==
    Once(Linked7, LAMBDA T : add_connector_arrow(T, 5, 6, "right", 50, "top", 50, 8))
LinkedDocument == Once(Linked8, LAMBDA T : from_dict(T.M))
\* the same with a second box, on the Design row, that nothing is linked to
Linked9 ==
    Once(Linked8, LAMBDA T : Created(T, 9, "box", 2, 2, MinWeek, MinWeek))
AnchorDocument == Once(Linked9, LAMBDA T : from_dict(T.M))
\* the same with a connector between the two boxes
Linked10 ==
    Once(Linked9, LAMBDA T : add_connector_arrow(T, 5, 9, "right", 50, "left", 50, 10))
SceneDocument == Once(Linked10, LAMBDA T : from_dict(T.M))
\* an arrow from the Beta row to the Build row and a textbox linked to it
Arrow5 ==
    Once(Plan4, LAMBDA T : Created(T, 5, "arrow", 4, 3, MinWeek, MaxWeek))
Arrow6 ==
    Once(Arrow5, LAMBDA T : Created(T, 6, "textbox", CANVAS_ROW_ID, CANVAS_ROW_ID, MinWeek, MinWeek))
Arrow7 ==
    Once(Arrow6, LAMBDA T : add_anchor_link(T, 6, 5, "left", 50, 7))
ArrowDocument == Once(Arrow7, LAMBDA T : from_dict(T.M))

\* the plan with one object of every kind the tools create (the arrow runs from
\* the Beta row to the Build row), a link and a connector
Kinds5 ==
    Once(Plan4, LAMBDA T : Created(T, 5, "box", 2, 2, MinWeek, MinWeek))
Kinds6 ==
    Once(Kinds5, LAMBDA T : Created(T, 6, "text", 3, 3, MinWeek, MaxWeek))
Kinds7 ==
    Once(Kinds6, LAMBDA T : Created(T, 7, "milestone", 4, 4, MaxWeek, MaxWeek))
Kinds8 ==
    Once(Kinds7, LAMBDA T : Created(T, 8, "circle", 1, 1, MinWeek, MinWeek))
Kinds9 ==
    Once(Kinds8, LAMBDA T : Created(T, 9, "deadline", CANVAS_ROW_ID, CANVAS_ROW_ID, MaxWeek, MaxWeek))
Kinds10 ==
    Once(Kinds9, LAMBDA T : Created(T, 10, "arrow", 4, 3, MinWeek, MaxWeek))
Kinds11 ==
    Once(Kinds10, LAMBDA T : Created(T, 11, "textbox", CANVAS_ROW_ID, CANVAS_ROW_ID, MinWeek, MinWeek))
Kinds12 ==
    Once(Kinds11, LAMBDA T : add_anchor_link(T, 11, 5, "left", 50, 12))
Kinds13 ==
    Once(Kinds12, LAMBDA T : add_connector_arrow(T, 5, 7, "right", 50, "top", 50, 13))
KindsDocument == Once(Kinds13, LAMBDA T : from_dict(T.M))

\* ---------------------------------------------------------------------------
\* Specifications
\* ---------------------------------------------------------------------------
\* every operation of the controller
AllProfile ==
    [stack |-> MaxStack, branch |-> FALSE, noops |-> FALSE, absent |-> FALSE,
     names |-> {"Gamma"}, colors |-> {DEFAULT_TOPIC_COLORS[1]},
     classTexts |-> {" SECRET "}, classSizes |-> {None},
     kinds |-> {"box"},
     weeks |-> {MinWeek}, spans |-> {0},
     boxes |-> {NoteBox},
     sides |-> {"right"}, offsets |-> {50},
     reorders |-> {"front"}, maxSel |-> 1,
     nudges |-> {<<1, 0>>},
     edits |-> {[size |-> 2]},
     labels |-> {LABEL_WIDTH * Scale, 210 * Scale},
     window |-> [x |-> 0..(600 * Scale), y |-> 0..(400 * Scale),
                 weeks |-> MinWeek..MaxWeek]]

Init == InitWith({EmptyModel, PlanDocument})

Next ==
    \/ AddTopic(AllProfile)
    \/ UpdateTopic(AllProfile)
    \/ AddDeliverable(AllProfile)
    \/ UpdateDeliverable(AllProfile)
    \/ MoveDeliverable(AllProfile)
    \/ RemoveDeliverable(AllProfile)
    \/ RemoveTopic(AllProfile)
    \/ ToggleTopicCollapsed(AllProfile)
    \/ UpdateClassification(AllProfile)
    \/ AddObject(AllProfile)
    \/ RemoveObject(AllProfile)
    \/ DuplicateObject(AllProfile)
    \/ AddAnchorLink(AllProfile)
    \/ AddConnectorArrow(AllProfile)
    \/ ReorderObjects(AllProfile)
    \/ MoveObject(AllProfile)
    \/ EditObject(AllProfile)
    \/ Undo
    \/ Redo

Spec == Init /\ [][Next]_vars

\* objects with links and connectors: creation, removal, moves, row removal
LinkProfile == [AllProfile EXCEPT !.nudges = {<<1, 0>>, <<0, -1>>}]

InitLinks == InitWith({LinkedDocument})

NextLinks ==
    \/ AddObject(LinkProfile)
    \/ RemoveObject(LinkProfile)
    \/ DuplicateObject(LinkProfile)
    \/ AddAnchorLink(LinkProfile)
    \/ AddConnectorArrow(LinkProfile)
    \/ RemoveDeliverable(LinkProfile)
    \/ RemoveTopic(LinkProfile)
    \/ MoveObject(LinkProfile)
    \/ Undo
    \/ Redo

SpecLinks == InitLinks /\ [][NextLinks]_vars

\* calls that may change nothing: edits with empty changes, with the stored
\* values and with values that normalise to the stored ones, on every id
SameProfile ==
    [AllProfile EXCEPT
        !.stack = MaxSameStack,
        !.noops = TRUE,
        !.names = {"Alpha", "Design"},
        !.classTexts = {DEFAULT_CLASSIFICATION, " SECRET "},
        !.classSizes = {None, CLASSIFICATION_SIZE_DEFAULT},
        !.kinds = {"arrow", "textbox"},
        !.edits = {EmptyChanges, [size |-> 9], [arrow_direction |-> "up"]}]

InitSame == InitWith({EmptyModel, KindsDocument})

NextSame ==
    \/ EditObject(SameProfile)
    \/ UpdateTopic(SameProfile)
    \/ UpdateDeliverable(SameProfile)
    \/ UpdateClassification(SameProfile)
    \/ AddObject(SameProfile)
    \/ Undo
    \/ Redo

SpecSame == InitSame /\ [][NextSame]_vars

\* rows removed with what is drawn on them, from expanded and collapsed topics
RowProfile == [AllProfile EXCEPT !.kinds = {"arrow"}, !.spans = {1}]

InitRows == InitWith({KindsDocument})

NextRows ==
    \/ ToggleTopicCollapsed(RowProfile)
    \/ RemoveTopic(RowProfile)
    \/ RemoveDeliverable(RowProfile)
    \/ RemoveObject(RowProfile)
    \/ AddObject(RowProfile)
    \/ Undo
    \/ Redo

SpecRows == InitRows /\ [][NextRows]_vars

\* gestures on several selected objects: two objects are nudged by a week
GestureProfile == [AllProfile EXCEPT !.nudges = {<<1, 0>>, <<0, 1>>}]

InitGesture == InitWith({LinkedDocument, KindsDocument})

NextGesture ==
    \/ NudgeSelected(GestureProfile)
    \/ MoveObject(GestureProfile)
    \/ AddObject(GestureProfile)
    \/ RemoveObject(GestureProfile)
    \/ Undo
    \/ Redo

SpecGesture == InitGesture /\ [][NextGesture]_vars

\* the label column is resized between edits
InitLabel == InitWith({LinkedDocument})

NextLabel ==
    \/ LabelResize(LinkProfile)
    \/ MoveObject(LinkProfile)
    \/ AddObject(LinkProfile)
    \/ RemoveObject(LinkProfile)
    \/ RemoveDeliverable(LinkProfile)
    \/ Undo
    \/ Redo

SpecLabel == InitLabel /\ [][NextLabel]_vars

\* calls with ids that are no longer, or never were, ids of what the call is about
AbsentProfile == [AllProfile EXCEPT !.stack = MaxSameStack, !.noops = TRUE, !.absent = TRUE]

InitAbsent == InitWith({PlanDocument, LinkedDocument})

NextAbsent ==
    \/ RemoveObject(AbsentProfile)
    \/ EditObject(AbsentProfile)
    \/ DuplicateObject(AbsentProfile)
    \/ UpdateTopic(AbsentProfile)
    \/ UpdateDeliverable(AbsentProfile)
    \/ AddDeliverable(AbsentProfile)
    \/ ToggleTopicCollapsed(AbsentProfile)
    \/ MoveDeliverable(AbsentProfile)
    \/ RemoveDeliverable(AbsentProfile)
    \/ RemoveTopic(AbsentProfile)
    \/ AddAnchorLink(AbsentProfile)
    \/ AddConnectorArrow(AbsentProfile)
    \/ ReorderObjects(AbsentProfile)
    \/ Undo
    \/ Redo

SpecAbsent == InitAbsent /\ [][NextAbsent]_vars

\* _normalize_object as a function: any CanvasObject a caller can build is
\* handed to it, and its result is handed to it again
Kinds ==
    {"box", "text", "milestone", "circle", "deadline", "arrow", "textbox", "link",
     "connector"}
RawLevels == {"low", "mid", "high"}
RawObject(kind, start_week, end_week, target_week, level, heads, direction, html, geometry, offsets) ==
    Replace(CanvasObject(1, kind, CANVAS_ROW_ID, start_week, end_week),
        [target_week |-> target_week,
         size |-> CASE level = "low" -> 0 [] level = "mid" -> 3 [] OTHER -> 9,
         opacity |-> CASE level = "low" -> -20 [] level = "mid" -> 50 [] OTHER -> 150,
         arrow_head_start |-> heads[1], arrow_head_end |-> heads[2],
         arrow_direction |-> direction,
         text_html |-> html, notes_html |-> html, scope_html |-> html,
         risks_html |-> html,
         x |-> CASE geometry = "low" -> None [] geometry = "mid" -> 0 [] OTHER -> 30 * Scale,
         y |-> CASE geometry = "low" -> None [] geometry = "mid" -> 0 [] OTHER -> -30 * Scale,
         width |-> CASE geometry = "low" -> None [] geometry = "mid" -> Scale
                     [] OTHER -> (TEXTBOX_MIN_WIDTH + 50) * Scale,
         height |-> CASE geometry = "low" -> None [] geometry = "mid" -> 0
                      [] OTHER -> (TEXTBOX_MIN_HEIGHT + 50) * Scale,
         link_source_offset |->
             CASE offsets = "low" -> None [] offsets = "mid" -> -20 [] OTHER -> 150,
         link_offset_x |-> CASE offsets = "low" -> None [] offsets = "mid" -> 0 [] OTHER -> 30,
         link_offset_y |-> CASE offsets = "low" -> None [] offsets = "mid" -> 0 [] OTHER -> -30,
         connector_source_offset |->
             CASE offsets = "low" -> None [] offsets = "mid" -> 150 [] OTHER -> 50,
         connector_target_offset |->
             CASE offsets = "low" -> None [] offsets = "mid" -> -20 [] OTHER -> 50])

RawObjects ==
    {RawObject(kind, start_week, end_week, target_week, level, heads, direction, html,
               geometry, offsets) :
        kind \in Kinds, start_week \in {MinWeek, MaxWeek}, end_week \in {MinWeek, MaxWeek},
        target_week \in {None, MinWeek + 1}, level \in RawLevels,
        heads \in BOOLEAN \X BOOLEAN, direction \in {"left", " Right ", "Up"},
        html \in {"", "<b>x</b>"}, geometry \in RawLevels, offsets \in RawLevels}

InitNormal ==
    /\ label_width = LABEL_WIDTH * Scale
    /\ topics = EmptyModel.topics
    /\ theap = EmptyModel.theap
    /\ dheap = EmptyModel.dheap
    /\ objects = EmptyModel.objects
    /\ classification = EmptyModel.classification
    /\ stack = <<>>
    /\ cursor = 0
    /\ defaults = ControllerDefaults
    /\ \E obj \in RawObjects : act = [name |-> "init", pushed |-> 0, id |-> obj.id, arg |-> obj]
    /\ preView = View(Model)
    /\ run = [undos |-> 0, redos |-> 0, base |-> View(Model)]
    /\ origin = View(Model)

NormalizeObject ==
    /\ act.name \in {"init", "normalize_object"}
    /\ act' = [name |-> "normalize_object", pushed |-> 0, id |-> act.arg.id,
               arg |-> normalize_object(act.arg)]
    /\ UNCHANGED <<topics, theap, dheap, objects, classification, stack, cursor,
                   defaults, preView, run, label_width, origin>>

NextNormal == NormalizeObject

SpecNormal == InitNormal /\ [][NextNormal]_vars

\* point-like objects: created, moved to another week at one end only, duplicated
PointKinds == {"milestone", "circle", "deadline"}
PointProfile ==
    [AllProfile EXCEPT
        !.kinds = PointKinds,
        !.weeks = {MinWeek, MaxWeek},
        !.edits = {[start_week |-> MaxWeek], [end_week |-> MaxWeek],
                   [start_week |-> MinWeek, end_week |-> MaxWeek]}]

InitPoint == InitWith({KindsDocument})

NextPoint ==
    \/ AddObject(PointProfile)
    \/ EditObject(PointProfile)
    \/ MoveObject(PointProfile)
    \/ DuplicateObject(PointProfile)
    \/ RemoveObject(PointProfile)
    \/ Undo
    \/ Redo

SpecPoint == InitPoint /\ [][NextPoint]_vars

\* duplicates of objects that span weeks: the saved plan, and the plan saved
\* with a bend in its arrow; arrows are drawn forwards and backwards
MidDocument ==
    [KindsDocument EXCEPT !.objects =
        [i \in 1..Len(KindsDocument.objects) |->
            IF KindsDocument.objects[i].kind = "arrow"
            THEN [KindsDocument.objects[i] EXCEPT !.arrow_mid_week = MinWeek]
            ELSE KindsDocument.objects[i]]]

CloneProfile ==
    [AllProfile EXCEPT
        !.kinds = {"arrow"},
        !.weeks = {MaxWeek},
        !.spans = {-1, 1},
        !.window = [AllProfile.window EXCEPT !.weeks = MinWeek..(MaxWeek + 2)]]

InitClone == InitWith({KindsDocument, MidDocument})

NextClone ==
    \/ DuplicateObject(CloneProfile)
    \/ AddObject(CloneProfile)
    \/ RemoveObject(CloneProfile)
    \/ Undo
    \/ Redo

SpecClone == InitClone /\ [][NextClone]_vars

\* a function of the layout handed inputs: the session is a new one and the
\* call to make is what act holds
InitInput(inputs) ==
    /\ label_width = LABEL_WIDTH * Scale
    /\ topics = EmptyModel.topics
    /\ theap = EmptyModel.theap
    /\ dheap = EmptyModel.dheap
    /\ objects = EmptyModel.objects
    /\ classification = EmptyModel.classification
    /\ stack = <<>>
    /\ cursor = 0
    /\ defaults = ControllerDefaults
    /\ \E input \in inputs : act = [name |-> "init", pushed |-> 0, id |-> 0, arg |-> input]
    /\ preView = View(Model)
    /\ run = [undos |-> 0, redos |-> 0, base |-> View(Model)]
    /\ origin = View(Model)
Returned(name, result) ==
    /\ act' = [name |-> name, pushed |-> 0, id |-> 0, arg |-> result]
    /\ UNCHANGED <<topics, theap, dheap, objects, classification, stack, cursor,
                   defaults, preView, run, label_width, origin>>

\* row_at_y for the heights one unit around the header bottom and every row
\* boundary, inside every row, above the header and below the last row, in
\* the layouts that collapsing and removing rows leave
SceneYs(L) ==
    {HEADER_HEIGHT * Scale + b + d :
        b \in {0} \cup Range(row_end_positions(L)),
        d \in {-1, 0, 1, (DELIVERABLE_ROW_HEIGHT * Scale) \div 2}}
      \cup {0, HEADER_HEIGHT * Scale - Scale}
RowAtY ==
    \E scene_y \in SceneYs(Layout) :
        Returned("row_at_y", [y |-> scene_y, row |-> row_at_y(Layout, scene_y)])

InitScan == InitWith({PlanDocument})

NextScan ==
    \/ ToggleTopicCollapsed(RowProfile)
    \/ RemoveTopic(RowProfile)
    \/ RemoveDeliverable(RowProfile)
    \/ Undo
    \/ Redo
    \/ RowAtY

SpecScan == InitScan /\ [][NextScan]_vars

\* linked objects moved one at a time and two at a time, textboxes resized,
\* rows collapsed and removed under them
AnchorProfile ==
    [LinkProfile EXCEPT !.edits = {[width |-> 80 * Scale], [height |-> 50 * Scale]}]

\* a nudge of two objects pushes up to three entries
NudgeProfile == [AnchorProfile EXCEPT !.stack = MaxStack + 1]

InitAnchor == InitWith({AnchorDocument, ArrowDocument})

NextAnchor ==
    \/ MoveObject(AnchorProfile)
    \/ EditObject(AnchorProfile)
    \/ NudgeCalls(NudgeProfile)
    \/ ToggleTopicCollapsed(AnchorProfile)
    \/ RemoveDeliverable(AnchorProfile)
    \/ Undo
    \/ Redo

SpecAnchor == InitAnchor /\ [][NextAnchor]_vars

\* links and connectors while topics are collapsed and expanded and their ends
\* are moved.  The scene syncs every link and connector item after each step
\* (scene.py:68-69, 93-101, 259-264).
InitScene == InitWith({SceneDocument})

NextScene ==
    \/ ToggleTopicCollapsed(LinkProfile)
    \/ MoveObject(LinkProfile)
    \/ Undo
    \/ Redo

SpecScene == InitScene /\ [][NextScene]_vars

\* MainWindow.open_project once maybe_save has let it go on: _load_from_path
\* clears the stack, makes a controller and a scene for the loaded model and
\* applies the saved label width; an exception of load_project ends in a
\* message box
OpenProject(files) ==
    \E data \in files :
        LET result == load_project(data)
        IN  /\ act' = [name |-> "open_project", pushed |-> 0, id |-> 0,
                       arg |-> [schema_version |-> data.schema_version,
                                raised |-> result.raised,
                                constructed |-> result.constructed]]
            /\ IF result.raised
               THEN UNCHANGED <<topics, theap, dheap, objects, classification, stack,
                                cursor, defaults, preView, run, label_width, origin>>
               ELSE /\ SetModel(result.model)
                    /\ stack' = <<>>
                    /\ cursor' = 0
                    /\ defaults' = ControllerDefaults
                    /\ label_width' = IfNone(result.view_state.label_width,
                                             LABEL_WIDTH * Scale)
                    /\ preView' = View(result.model)
                    /\ run' = [undos |-> 0, redos |-> 0, base |-> View(result.model)]
                    /\ origin' = View(result.model)

\* files of the supported schema version, of an older and of a newer one, and
\* files without a version
ProjectFiles ==
    [schema_version : {None, 0, SCHEMA_VERSION, SCHEMA_VERSION + 1},
     model : {EmptyModel, PlanDocument},
     view : {[label_width |-> None], [label_width |-> 210 * Scale]}]

InitOpen == InitWith({EmptyModel})

NextOpen ==
    \/ AddTopic(AllProfile)
    \/ AddDeliverable(AllProfile)
    \/ UpdateTopic(AllProfile)
    \/ Undo
    \/ Redo
    \/ OpenProject(ProjectFiles)

SpecOpen == InitOpen /\ [][NextOpen]_vars

\* deliverables added, moved inside and across topics and removed, topics
\* removed, and all of it undone and redone
InitDeliver == InitWith({PlanDocument})

NextDeliver ==
    \/ AddDeliverable(AllProfile)
    \/ MoveDeliverable(AllProfile)
    \/ RemoveDeliverable(AllProfile)
    \/ RemoveTopic(AllProfile)
    \/ Undo
    \/ Redo

SpecDeliver == InitDeliver /\ [][NextDeliver]_vars

\* weeks to x and back, for the label widths a drag of the column edge at
\* zoom 1 and at zoom 1.5 leaves, and weeks on both sides of the origin week
WeekInputs ==
    [pos_x : {60, 200, 241, 313, 386, 500, 700, 767}, zoom : {<<1, 1>>, <<3, 2>>},
     week : (MinWeek - 4)..(MaxWeek + 4), snap : BOOLEAN]

InitWeeks == InitInput(WeekInputs)

WeekRoundTrip ==
    /\ act.name = "init"
    /\ \E lw \in {resized_label_width(act.arg.pos_x, act.arg.zoom)} :
           Returned("week_from_x",
                    [week |-> act.arg.week, snap |-> act.arg.snap,
                     whole |-> ~HasFraction(lw.limbs),
                     back |-> float_week_from_x(lw, float_week_left_x(lw, act.arg.week),
                                                act.arg.snap)])

NextWeeks == WeekRoundTrip

SpecWeeks == InitWeeks /\ [][NextWeeks]_vars

\* the z-order: every reorder action on one or two objects of documents whose
\* z-indices have ties (link and connector) and, after removals, gaps
OrderProfile ==
    [AllProfile EXCEPT !.reorders = {"front", "back", "forward", "backward"},
                       !.maxSel = 2]

InitOrder == InitWith({PlanDocument, LinkedDocument})

NextOrder ==
    \/ ReorderObjects(OrderProfile)
    \/ AddObject(OrderProfile)
    \/ RemoveObject(OrderProfile)
    \/ RemoveDeliverable(OrderProfile)
    \/ Undo
    \/ Redo

SpecOrder == InitOrder /\ [][NextOrder]_vars

\* ---------------------------------------------------------------------------
\* Properties
\* ---------------------------------------------------------------------------
\* the object with the id and every link or connector naming it as source or target
Attached(objs, id) ==
    {o \in Range(objs) :
        \/ o.id = id
        \/ (o.kind = "link" /\ (o.link_source_id = id \/ o.link_target_id = id))
        \/ (o.kind = "connector"
               /\ (o.connector_source_id = id \/ o.connector_target_id = id))}
\* a stack entry made of removals only, and the objects it holds
IsRemoval(entry) ==
    Len(entry) > 0 /\ \A i \in 1..Len(entry) : entry[i].type = "RemoveObject"
RemovedObjects(entry) == {entry[i].obj : i \in 1..Len(entry)}

\* C1: remove_object(id) removes the object and every link and connector that
\* names it, as exactly one undo entry holding exactly those objects; undoing
\* that entry puts all of them back with their field values, and redoing it
\* removes all of them again.
C1_RemoveStep ==
    /\ (act'.name = "remove_object" /\ HasObjIn(objects, act'.id)) =>
          /\ act'.pushed = 1
          /\ cursor' = cursor + 1
          /\ Len(stack') = cursor'
          /\ RemovedObjects(stack'[cursor']) = Attached(objects, act'.id)
          /\ Range(objects') = Range(objects) \ Attached(objects, act'.id)
    /\ (act'.name = "undo" /\ IsRemoval(stack[cursor])) =>
          /\ RemovedObjects(stack[cursor]) \cap Range(objects) = {}
          /\ Range(objects') = Range(objects) \cup RemovedObjects(stack[cursor])
    /\ (act'.name = "redo" /\ IsRemoval(stack[cursor + 1])) =>
          /\ RemovedObjects(stack[cursor + 1]) \subseteq Range(objects)
          /\ Range(objects') = Range(objects) \ RemovedObjects(stack[cursor + 1])
C1_RemoveObjectIsOneEntry == [][C1_RemoveStep]_vars
\* an object with a link and a connector was removed, restored and removed again
C1_Witness ==
    /\ act.name = "redo"
    /\ cursor > 0
    /\ IsRemoval(stack[cursor])
    /\ \E o \in RemovedObjects(stack[cursor]) : o.kind = "link"
    /\ \E o \in RemovedObjects(stack[cursor]) : o.kind = "connector"
    /\ \E o \in RemovedObjects(stack[cursor]) : o.kind = "box"
    /\ RemovedObjects(stack[cursor]) \cap Range(objects) = {}

\* C2: performing any pushing operation (add/remove/update/duplicate object,
\* add/update/remove topic, add/update/remove/move deliverable, toggle collapse,
\* update classification, add_anchor_link, add_connector_arrow, reorder_objects)
\* and then one undo leaves the model as it was before the operation: the same
\* topics in order with their deliverables and collapsed flags, the same
\* classification and the same set of objects with the same field values.
PushingOps ==
    {"add_object", "remove_object", "update_object", "duplicate_object",
     "add_topic", "update_topic", "remove_topic",
     "add_deliverable", "update_deliverable", "remove_deliverable", "move_deliverable",
     "toggle_topic_collapsed", "update_classification",
     "add_anchor_link", "add_connector_arrow", "reorder_objects"}
C2_UndoStep ==
    (act.name \in PushingOps /\ act.pushed > 0 /\ act'.name = "undo") =>
        View(Model)' = preView
C2_OperationThenUndo == [][C2_UndoStep]_vars
\* the last pushed operation changed the model and has just been undone
C2_Witness ==
    /\ act.name = "undo"
    /\ run.undos = 1 /\ run.redos = 0
    /\ cursor + 1 = Len(stack)
    /\ run.base # preView
    /\ View(Model) = preView

\* C3: k undos followed by k redos bring the model back to what it was before
\* the undos, for every k up to the number of applied entries.
C3_UndosThenRedos ==
    (run.undos > 0 /\ run.redos = run.undos) => View(Model) = run.base
\* two entries were undone and redone
C3_Witness ==
    /\ run.undos = 2 /\ run.redos = 2
    /\ cursor = 2
    /\ preView # run.base
    /\ View(Model) = run.base
\* a stack entry made of object updates only, and the records it replaces and sets
IsUpdate(entry) ==
    Len(entry) > 0 /\ \A i \in 1..Len(entry) : entry[i].type = "UpdateObject"
OldObjects(entry) == {entry[i].old_obj : i \in 1..Len(entry)}
NewObjects(entry) == {entry[i].new_obj : i \in 1..Len(entry)}

\* C4: an update_object call that changes the model pushes exactly one entry,
\* which starts with the primary edit and holds every object the call changed
\* (the repositioned textboxes and the links with recomputed offsets); undoing
\* the entry puts back the old record of every one of them and redoing it sets
\* the new record of every one of them, so no part of a cascade is ever applied
\* without the rest.
C4_CascadeStep ==
    /\ (act'.name = "update_object" /\ act'.pushed > 0) =>
          /\ act'.pushed = 1
          /\ cursor' = cursor + 1
          /\ Len(stack') = cursor'
          /\ IsUpdate(stack'[cursor'])
          /\ stack'[cursor'][1].old_obj.id = act'.id
          /\ Range(objects) \ Range(objects') = OldObjects(stack'[cursor'])
          /\ Range(objects') \ Range(objects) = NewObjects(stack'[cursor'])
    /\ (act'.name = "undo" /\ IsUpdate(stack[cursor])) =>
          /\ Range(objects) \ Range(objects') = NewObjects(stack[cursor])
          /\ Range(objects') \ Range(objects) = OldObjects(stack[cursor])
    /\ (act'.name = "redo" /\ IsUpdate(stack[cursor + 1])) =>
          /\ Range(objects) \ Range(objects') = OldObjects(stack[cursor + 1])
          /\ Range(objects') \ Range(objects) = NewObjects(stack[cursor + 1])
C4_CascadeIsOneEntry == [][C4_CascadeStep]_vars
\* a moved box took its linked textbox along, and the entry was undone and redone
C4_Witness ==
    /\ act.name = "redo"
    /\ cursor > 0
    /\ IsUpdate(stack[cursor])
    /\ Len(stack[cursor]) >= 2
    /\ stack[cursor][1].old_obj.kind = "box"
    /\ \E i \in 2..Len(stack[cursor]) : stack[cursor][i].old_obj.kind = "textbox"
\* a moved textbox had the offsets of its link recomputed, and the entry was undone
C4_WitnessLink ==
    /\ act.name = "undo"
    /\ cursor < Len(stack)
    /\ IsUpdate(stack[cursor + 1])
    /\ stack[cursor + 1][1].old_obj.kind = "textbox"
    /\ \E i \in 2..Len(stack[cursor + 1]) : stack[cursor + 1][i].old_obj.kind = "link"
\* the call pushed nothing and left the model and the undo log as they were
NothingPushed ==
    /\ act'.pushed = 0
    /\ UNCHANGED <<topics, theap, dheap, objects, classification, stack, cursor>>

\* C5: update_object on a stored object pushes nothing and leaves the model and
\* the undo log unchanged when the changes are empty or the changed and
\* normalised object equals the stored one; update_topic, update_deliverable and
\* update_classification push nothing when the new value equals the current one.
C5_SameStep ==
    /\ (act'.name = "update_object" /\ HasObjIn(objects, act'.id)) =>
          \A obj \in {GetObjIn(objects, act'.id)}, changes \in {act'.arg} :
              (\/ changes = EmptyChanges
               \/ \A replaced \in {Replace(obj, changes)} :
                      normalize_object(replaced) = obj)
                => NothingPushed
    /\ (act'.name = "update_topic" /\ act'.id \in TopicIds(Model)) =>
          \A current \in {theap[get_topic(Model, act'.id)]} :
              (current.name = act'.arg.name /\ current.color = act'.arg.color)
                => NothingPushed
    /\ (act'.name = "update_deliverable" /\ act'.id \in DeliverableIds(Model)) =>
          \A found \in {find_deliverable(Model, act'.id)} :
              found.deliverable.name = act'.arg => NothingPushed
    /\ act'.name = "update_classification" =>
          \A new \in {act'.arg} :
              (\/ (new.text = classification.text /\ new.size = classification.size)
               \/ normalize_classification(Model, new.text, new.size) = classification)
                => NothingPushed
C5_EqualUpdatePushesNothing == [][C5_SameStep]_vars
\* after an edit was pushed, an update whose changes normalise to the stored
\* object was called on an object and pushed nothing
C5_Witness ==
    /\ act.name = "update_object"
    /\ act.pushed = 0
    /\ cursor = 1
    /\ HasObjIn(objects, act.id)
    /\ act.arg # EmptyChanges
    /\ normalize_object(Replace(GetObjIn(objects, act.id), act.arg))
          = GetObjIn(objects, act.id)
\* C6: in every state reached by add_object, add_anchor_link,
\* add_connector_arrow, duplicate_object, remove_object, remove_topic,
\* remove_deliverable, undo and redo, every link and every connector has its
\* source id and its target id among the objects of the model.
C6_NoDanglingAttachment ==
    \A o \in Range(objects) :
        /\ o.kind = "link" =>
              {o.link_source_id, o.link_target_id} \subseteq ObjIds(objects)
        /\ o.kind = "connector" =>
              {o.connector_source_id, o.connector_target_id} \subseteq ObjIds(objects)
\* a row was removed with the box on it, its link and its connector, and the
\* removal was undone: the link and the connector are back with both their ends
C6_Witness ==
    /\ act.name = "undo"
    /\ cursor < Len(stack)
    /\ stack[cursor + 1][1].type \in {"RemoveDeliverable", "RemoveTopic"}
    /\ \E o \in Range(stack[cursor + 1][1].removed_objects) :
           o.kind = "link" /\ o \in Range(objects)
    /\ \E o \in Range(stack[cursor + 1][1].removed_objects) :
           o.kind = "connector" /\ o \in Range(objects)
    /\ C6_NoDanglingAttachment
\* the rows remove_topic(id) and remove_deliverable(id) take away
RowsOfTopic(M, topic_id) ==
    {topic_id} \cup {d.id : d \in Range(Deliverables(M, get_topic(M, topic_id)))}
\* the objects on the rows or ending on them, and the attachments of those
OnRows(objs, rows) ==
    {o \in Range(objs) : o.row_id \in rows \/ o.target_row_id \in rows}
Touching(objs, ids) ==
    {o \in Range(objs) :
        \/ (o.kind = "link" /\ (o.link_source_id \in ids \/ o.link_target_id \in ids))
        \/ (o.kind = "connector"
               /\ (o.connector_source_id \in ids \/ o.connector_target_id \in ids))}
RowsGoneWith(rows) ==
    \A gone \in {OnRows(objects, rows)
                    \cup Touching(objects, {o.id : o \in OnRows(objects, rows)})} :
        /\ act'.pushed = 1
        /\ cursor' = cursor + 1
        /\ Len(stack') = cursor'
        /\ Len(stack'[cursor']) = 1
        /\ Range(stack'[cursor'][1].removed_objects) = gone
        /\ Range(objects') = Range(objects) \ gone
        /\ (TopicIds(Model) \cup DeliverableIds(Model))'
              = (TopicIds(Model) \cup DeliverableIds(Model)) \ rows
        /\ \A o \in Range(objects') :
              o.row_id \notin rows /\ o.target_row_id \notin rows

\* C7: remove_topic and remove_deliverable push one entry of one command that
\* removes the rows (the topic row and all its deliverable rows, collapsed or
\* not), every object whose row_id or target_row_id is one of them and every
\* link and connector touching those objects; no object left refers to a
\* removed row, and undoing the entry restores the model.
C7_RowStep ==
    /\ (act'.name = "remove_topic" /\ act'.id \in TopicIds(Model)) =>
          RowsGoneWith(RowsOfTopic(Model, act'.id))
    /\ (act'.name = "remove_deliverable" /\ act'.id \in DeliverableIds(Model)) =>
          RowsGoneWith({act'.id})
    /\ (act.name \in {"remove_topic", "remove_deliverable"} /\ act'.name = "undo") =>
          View(Model)' = preView
C7_RowsRemovedWithObjects == [][C7_RowStep]_vars
\* a collapsed topic was removed with the objects on its deliverable rows, an
\* arrow that only ends on one of them, a link and a connector
C7_Witness ==
    /\ act.name = "remove_topic"
    /\ cursor > 0
    /\ Len(stack[cursor]) = 1
    /\ stack[cursor][1].type = "RemoveTopic"
    /\ theap[stack[cursor][1].topic].collapsed
    /\ \E o \in Range(stack[cursor][1].removed_objects) :
           o.kind = "arrow" /\ o.row_id \in TopicIds(Model)
    /\ \E o \in Range(stack[cursor][1].removed_objects) : o.kind = "link"
    /\ \E o \in Range(stack[cursor][1].removed_objects) : o.kind = "connector"
    /\ \E o \in Range(stack[cursor][1].removed_objects) :
           o.kind = "text" /\ o.row_id \notin TopicIds(Model)
\* the links from a textbox to the target
LinksTo(objs, target_id) ==
    {o \in Range(objs) :
        /\ o.kind = "link"
        /\ o.link_target_id = target_id
        /\ HasObjIn(objs, o.link_source_id)
        /\ GetObjIn(objs, o.link_source_id).kind = "textbox"}
\* the textbox's anchor point (on the link's side and offset) relative to the
\* target's anchor point
Relative(anchor, point) == [x |-> anchor.x - point.x, y |-> anchor.y - point.y]
RelativeAnchor(L, objs, link) ==
    Relative(textbox_anchor_point(GetObjIn(objs, link.link_source_id),
                                  link.link_source_side, link.link_source_offset),
             object_anchor_point(L, GetObjIn(objs, link.link_target_id)))
Near(p, q) == Abs(p.x - q.x) <= 1 /\ Abs(p.y - q.y) <= 1
\* update_object has moved a target that is not a textbox by weeks or rows
TargetMoved ==
    /\ act'.name = "update_object"
    /\ act'.pushed > 0
    /\ HasObjIn(objects, act'.id)
    /\ GetObjIn(objects, act'.id).kind # "textbox"
    /\ DOMAIN act'.arg \cap {"start_week", "row_id"} # {}
    /\ object_anchor_point(Layout, GetObjIn(objects, act'.id)).ok
    /\ object_anchor_point(Layout', GetObjIn(objects', act'.id)).ok

\* C8: after update_object moves a target by weeks or rows to a row of the
\* layout, the anchor point of every textbox linked to it, measured relative to
\* the target's anchor point, is within 0.01 canvas units of what it was before
\* the move.
C8_MoveStep ==
    TargetMoved =>
        \A link \in LinksTo(objects, act'.id) :
            Near(RelativeAnchor(Layout', objects', link),
                 RelativeAnchor(Layout, objects, link))
C8_AnchorOffsetStable == [][C8_MoveStep]_vars
\* the same, for the links whose stored offset is the textbox's relative anchor
\* at the time of the move
C8_FreshStep ==
    TargetMoved =>
        \A link \in LinksTo(objects, act'.id) :
            Near(RelativeAnchor(Layout, objects, link),
                 [x |-> link.link_offset_x, y |-> link.link_offset_y])
              => Near(RelativeAnchor(Layout', objects', link),
                      RelativeAnchor(Layout, objects, link))
C8_StableWhenFresh == [][C8_FreshStep]_vars
\* a linked target was moved by a row and by a week
C8_Moved ==
    /\ act.name = "update_object"
    /\ act.pushed = 1
    /\ cursor = 2
    /\ stack[1][1].type = "UpdateObject"
    /\ stack[2][1].type = "UpdateObject"
    /\ stack[1][1].old_obj.kind = "box"
    /\ stack[2][1].old_obj.kind = "box"
    /\ stack[1][1].old_obj.row_id # stack[2][1].new_obj.row_id
    /\ stack[1][1].old_obj.start_week # stack[2][1].new_obj.start_week
    /\ LinksTo(objects, act.id) # {}
\* reorder_objects has run on a selection with at least one existing object
Reordered ==
    /\ act'.name = "reorder_objects"
    /\ act'.pushed > 0
    /\ act'.arg.sel \cap ObjIds(objects) # {}
    /\ act'.arg.action \in {"front", "back", "forward", "backward"}
\* the drawing order: ids by (z_index, position in the objects dict)
RECURSIVE DrawingOrder(_, _)
DrawingOrder(objs, placed) ==
    IF placed = ObjIds(objs) THEN <<>>
    ELSE LET rest == {i \in 1..Len(objs) : objs[i].id \notin placed}
             low == CHOOSE i \in rest :
                        \A j \in rest :
                            \/ objs[i].z_index < objs[j].z_index
                            \/ objs[i].z_index = objs[j].z_index /\ i <= j
         IN  <<objs[low].id>> \o DrawingOrder(objs, placed \cup {objs[low].id})
Keep(order, ids) == SelectSeq(order, LAMBDA id : id \in ids)
Position(order, id) == CHOOSE i \in 1..Len(order) : order[i] = id

\* C9: after reorder_objects with a valid action and at least one existing
\* selected object, the z-indices of the n objects are exactly 0..n-1, without
\* duplicates, and each object's z-index is its position in the new order.
C9_ReorderStep ==
    Reordered =>
        \A order \in {NewOrder(ordered_object_ids(Model),
                               act'.arg.sel \cap ObjIds(objects), act'.arg.action)} :
            /\ Len(objects') = Len(order)
            /\ ObjIds(objects') = Range(order)
            /\ {objects'[i].z_index : i \in 1..Len(objects')} = 0..(Len(objects') - 1)
            /\ \A i, j \in 1..Len(objects') :
                   objects'[i].z_index = objects'[j].z_index => i = j
            /\ \A i \in 1..Len(order) : GetObjIn(objects', order[i]).z_index = i - 1
C9_DenseZIndices == [][C9_ReorderStep]_vars
\* a reorder has renumbered objects whose z-indices had a tie and a negative
\* value
C9_Witness ==
    /\ act.name = "reorder_objects"
    /\ act.pushed = 1
    /\ cursor > 0
    /\ Len(stack[cursor]) >= 3
    /\ \E i \in 1..Len(stack[cursor]) :
           /\ stack[cursor][i].type = "UpdateObject"
           /\ stack[cursor][i].old_obj.z_index < 0
    /\ {objects[i].z_index : i \in 1..Len(objects)} = 0..3

\* C10: "front" (resp. "back") puts every selected object above (resp. below)
\* every object that is not selected, and keeps the order of the selected
\* objects among themselves and of the others among themselves, the order
\* being by (z_index, insertion order).
C10_FrontBackStep ==
    (Reordered /\ act'.arg.action \in {"front", "back"}) =>
        \A before \in {DrawingOrder(objects, {})}, after \in {DrawingOrder(objects', {})} :
            \A sel \in {act'.arg.sel \cap ObjIds(objects)} :
                \A others \in {ObjIds(objects) \ sel} :
                    /\ Keep(after, sel) = Keep(before, sel)
                    /\ Keep(after, others) = Keep(before, others)
                    /\ \A s \in sel, o \in others :
                           IF act'.arg.action = "front"
                           THEN Position(after, s) > Position(after, o)
                           ELSE Position(after, s) < Position(after, o)
C10_FrontBackOrder == [][C10_FrontBackStep]_vars
\* two objects with the same z-index, the later created one drawn first after
\* an earlier reorder, were brought to the front together above two others
C10_Witness ==
    /\ act.name = "reorder_objects"
    /\ act.pushed = 1
    /\ act.arg.action = "front"
    /\ Cardinality(act.arg.sel) = 2
    /\ Len(objects) = 4
    /\ cursor = 2
    /\ \E s, t \in act.arg.sel :
           /\ s < t
           /\ GetObjIn(objects, t).z_index = 2
           /\ GetObjIn(objects, s).z_index = 3
\* how many objects that are not selected are drawn above (below) an object
Above(order, sel, id) ==
    Cardinality({i \in 1..Len(order) : i > Position(order, id) /\ order[i] \notin sel})
Below(order, sel, id) ==
    Cardinality({i \in 1..Len(order) : i < Position(order, id) /\ order[i] \notin sel})

\* C11: "forward" (resp. "backward") moves every selected object that has an
\* object that is not selected above (resp. below) it past exactly one of
\* them, leaves a selected object with none where it is, and keeps the order
\* of the objects that are not selected.
C11_StepwiseStep ==
    (Reordered /\ act'.arg.action \in {"forward", "backward"}) =>
        \A before \in {DrawingOrder(objects, {})}, after \in {DrawingOrder(objects', {})} :
            \A sel \in {act'.arg.sel \cap ObjIds(objects)} :
                /\ Keep(after, ObjIds(objects) \ sel) = Keep(before, ObjIds(objects) \ sel)
                /\ Range(after) = Range(before)
                /\ \A s \in sel :
                       IF act'.arg.action = "forward"
                       THEN /\ Above(after, sel, s) = Max2(Above(before, sel, s) - 1, 0)
                            /\ Below(after, sel, s) + Above(after, sel, s)
                                 = Below(before, sel, s) + Above(before, sel, s)
                       ELSE /\ Below(after, sel, s) = Max2(Below(before, sel, s) - 1, 0)
                            /\ Below(after, sel, s) + Above(after, sel, s)
                                 = Below(before, sel, s) + Above(before, sel, s)
C11_ForwardBackwardByOne == [][C11_StepwiseStep]_vars
\* two selected objects drawn next to each other both moved forward past the
\* one object above them, which had another object above it
C11_Witness ==
    /\ act.name = "reorder_objects"
    /\ act.pushed = 1
    /\ act.arg.action = "forward"
    /\ cursor > 0
    /\ \E s, t \in act.arg.sel, n \in ObjIds(objects) \ act.arg.sel :
           \E k \in 0..1 :
               /\ UpdateObjectCommand(
                      [GetObjIn(objects, s) EXCEPT !.z_index = k], GetObjIn(objects, s))
                    \in Range(stack[cursor])
               /\ GetObjIn(objects, s).z_index = k + 1
               /\ GetObjIn(objects, t).z_index = k + 2
               /\ GetObjIn(objects, n).z_index = k
               /\ \E c \in Range(stack[cursor]) :
                      /\ c.type = "UpdateObject"
                      /\ c.old_obj.id = n
                      /\ c.old_obj.z_index = k + 2
               /\ Len(objects) > k + 3
\* C12: the z-index changes of one reorder_objects call, with the updates
\* they cascade into, are one undo entry: one undo restores every object and
\* one redo applies all the changes again.
C12_ReorderStep ==
    Reordered =>
        /\ act'.pushed = 1
        /\ cursor' = cursor + 1
        /\ Len(stack') = cursor'
        /\ \A after \in {Model'}, entry \in {stack'[cursor']} :
               /\ \A c \in Range(entry) : c.type = "UpdateObject"
               /\ \A undone \in {EntryUndo(after, entry)} :
                      /\ View(undone) = View(Model)
                      /\ undone.objects = objects
                      /\ EntryRedo(undone, entry).objects = after.objects
C12_ReorderIsOneEntry == [][C12_ReorderStep]_vars
\* a reorder changed the z-index of several objects and moved a textbox whose
\* link had a stale offset, all in the one entry on top of the stack
C12_Witness ==
    /\ act.name = "reorder_objects"
    /\ act.pushed = 1
    /\ cursor = 2
    /\ Len(stack[cursor]) >= 4
    /\ \E c \in Range(stack[cursor]) :
           /\ c.type = "UpdateObject"
           /\ c.old_obj.kind = "textbox"
           /\ c.old_obj.y # c.new_obj.y
    /\ \E c, e \in Range(stack[cursor]) :
           /\ c.old_obj.id # e.old_obj.id
           /\ c.old_obj.z_index # c.new_obj.z_index
           /\ e.old_obj.z_index # e.new_obj.z_index
\* C13: a controller call that leaves the model as it was adds nothing to the
\* undo stack: the stack and the cursor are unchanged.  (reorder_objects on an
\* order that is already the dense z-order is such a call.)
C13_QuietStep ==
    (act'.name \in PushingOps /\ objects' = objects /\ View(Model)' = View(Model)) =>
        /\ stack' = stack
        /\ cursor' = cursor
C13_NoEmptyEntries == [][C13_QuietStep]_vars
\* the same for every call but reorder_objects
C13_QuietStepOfOthers == act'.name # "reorder_objects" => C13_QuietStep
C13_NoEmptyEntriesOfOthers == [][C13_QuietStepOfOthers]_vars
\* C14: a keyboard nudge of several selected objects is one undo entry: the
\* gesture pushes one command or one macro, and one undo brings back the model
\* of before the gesture.
C14_GestureStep ==
    (act'.name = "nudge_selected" /\ act'.pushed > 0) =>
        /\ act'.pushed = 1
        /\ cursor' = cursor + 1
        /\ \A after \in {Model'}, entry \in {stack'[cursor']} :
               View(EntryUndo(after, entry)) = View(Model)
C14_GestureIsOneEntry == [][C14_GestureStep]_vars
\* C15: every change of the model is made by a command on the undo stack, so
\* with every entry undone the model is what it was when the stack was empty.
C15_UndoneToOrigin == cursor = 0 => View(Model) = origin
\* every step that changes the model moves the cursor of the stack
C15_WriteStep == View(Model)' # View(Model) => cursor' # cursor
C15_OnlyCommandsWrite == [][C15_WriteStep]_vars
\* the call recorded in a names an id that resolves to nothing in the model M:
\* an object id, a topic id, a deliverable id; both ends of a link or connector
\* count, and a reorder resolves nothing when none of its ids is an object
Unresolved(M, a) ==
    CASE a.name \in {"remove_object", "update_object", "duplicate_object"} ->
             ~HasObjIn(M.objects, a.id)
      [] a.name \in {"update_topic", "add_deliverable", "toggle_topic_collapsed",
                     "remove_topic"} ->
             a.id \notin TopicIds(M)
      [] a.name \in {"update_deliverable", "move_deliverable", "remove_deliverable"} ->
             a.id \notin DeliverableIds(M)
      [] a.name \in {"add_anchor_link", "add_connector_arrow"} ->
             ~HasObjIn(M.objects, a.id) \/ ~HasObjIn(M.objects, a.arg.target)
      [] a.name = "reorder_objects" -> a.arg.sel \cap ObjIds(M.objects) = {}
      [] OTHER -> FALSE

\* C16: an operation of the controller called with an id that resolves to no
\* live object, topic or deliverable pushes no entry and leaves the model, the
\* stack and the cursor as they were.
C16_UnresolvedStep ==
    Unresolved(Model, act') =>
        /\ act'.pushed = 0
        /\ stack' = stack
        /\ cursor' = cursor
        /\ Model' = Model
C16_UnresolvedIsNoOp == [][C16_UnresolvedStep]_vars
\* an object removed earlier is removed again, a link is asked for between ids
\* of which one is a topic, a reorder is given only ids of rows
C16_Witness ==
    /\ cursor > 0
    /\ act.pushed = 0
    /\ act.name \in {"remove_object", "add_anchor_link", "reorder_objects", "remove_topic"}
    /\ Unresolved(Model, act)
\* C17: _normalize_object is idempotent for every kind: a normalized object
\* handed to it again comes back as it is (kind rules for the weeks, the size,
\* the opacity, the offsets, the textbox geometry and the arrow heads).
C17_NormalizeIdempotent ==
    act.name = "normalize_object" => normalize_object(act.arg) = act.arg
\* a raw object that normalization changed in the weeks and in the clamped values
C17_Witness ==
    /\ act.name = "normalize_object"
    /\ act.arg.kind = "milestone"
    /\ act.arg.start_week = MaxWeek
    /\ act.arg.end_week = MaxWeek
    /\ act.arg.size = 5
    /\ act.arg.opacity = 100
    /\ RawObject("milestone", MaxWeek, MinWeek, None, "high", <<FALSE, FALSE>>, "Up", "",
                 "low", "low") \in RawObjects
\* C18: every stored milestone, circle and deadline has end_week = start_week,
\* after every operation of the controller and every undo and redo.
C18_PointKindsHaveOneWeek ==
    \A i \in 1..Len(objects) :
        objects[i].kind \in PointKinds => objects[i].end_week = objects[i].start_week
\* a point-like object was given another start week only, and was then duplicated
C18_Witness ==
    /\ act.name = "duplicate_object"
    /\ act.pushed = 1
    /\ cursor = 2
    /\ stack[1][1].type = "UpdateObject"
    /\ stack[1][1].old_obj.id = act.id
    /\ stack[1][1].old_obj.start_week # stack[1][1].new_obj.start_week
    /\ GetObjIn(objects, act.id).kind \in PointKinds
    /\ GetObjIn(objects, act.arg).kind \in PointKinds
    /\ GetObjIn(objects, act.arg).start_week = MaxWeek + 1
\* the object a step created: the one whose id no object had before
CreatedBy(before, after) == {obj \in Range(after) : obj.id \notin ObjIds(before)}
CreatedAbove(names) ==
    (act'.name \in names /\ act'.pushed > 0) =>
        \A before \in {objects}, after \in {objects'} :
            /\ Cardinality(CreatedBy(before, after)) = 1
            /\ \A obj \in CreatedBy(before, after) :
                   Len(before) > 0 => obj.z_index = next_z_index(before)

\* C19: every object created through the controller (add_object, duplicate_object,
\* add_anchor_link, add_connector_arrow) is stored under an id no object had and
\* with a z-index one above the highest z-index of the objects present before.
C19_CreatedStep ==
    CreatedAbove({"add_object", "duplicate_object", "add_anchor_link",
                  "add_connector_arrow"})
C19_CreatedOnTop == [][C19_CreatedStep]_vars
\* what holds of the objects that are neither links nor connectors
C19_DrawnStep == CreatedAbove({"add_object", "duplicate_object"})
C19_DrawnCreatedOnTop == [][C19_DrawnStep]_vars
WeekBased(obj) == obj.kind \in {"box", "text", "milestone", "circle", "deadline", "arrow"}
\* |e - s| + 1 for the start s and the end e of the object, the target week
\* being the end of an arrow
SpanOf(obj) ==
    Abs((IF obj.kind = "arrow" THEN obj.target_week ELSE obj.end_week) - obj.start_week) + 1

\* C20: duplicate_object on a week-based object adds one clone under a new id
\* whose start, end, target and mid weeks are those of the source moved forward
\* by |e - s| + 1 weeks, so that the weeks of the clone lie after the weeks of
\* the source; the source and every other object stay as they were.
C20_DuplicateStep ==
    (act'.name = "duplicate_object" /\ act'.pushed > 0
        /\ WeekBased(GetObjIn(objects, act'.id))) =>
        \A before \in {objects}, after \in {objects'} :
            \A source \in {GetObjIn(before, act'.id)}, delta \in {SpanOf(GetObjIn(before, act'.id))} :
                /\ act'.pushed = 1
                /\ ~HasObjIn(before, act'.arg)
                /\ Len(after) = Len(before) + 1
                /\ \A i \in 1..Len(before) : after[i] = before[i]
                /\ delta >= 1
                /\ after[Len(after)] =
                       [source EXCEPT !.id = act'.arg,
                                      !.start_week = source.start_week + delta,
                                      !.end_week = source.end_week + delta,
                                      !.target_week = AddOrNone(source.target_week, delta),
                                      !.arrow_mid_week = AddOrNone(source.arrow_mid_week, delta),
                                      !.z_index = after[Len(after)].z_index]
                /\ Min2(after[Len(after)].start_week, after[Len(after)].end_week)
                       > Max2(source.start_week, source.end_week)
C20_DuplicateShiftsBySpan == [][C20_DuplicateStep]_vars
\* an arrow with a bend is duplicated: its span is more than one week
C20_Witness ==
    /\ act.name = "duplicate_object"
    /\ act.pushed = 1
    /\ GetObjIn(objects, act.id).kind = "arrow"
    /\ GetObjIn(objects, act.id).arrow_mid_week # None
    /\ SpanOf(GetObjIn(objects, act.id)) > 1
    /\ GetObjIn(objects, act.arg).arrow_mid_week
           = GetObjIn(objects, act.id).arrow_mid_week + SpanOf(GetObjIn(objects, act.id))
\* C21: for every integer week w, on either side of the origin week,
\* week_from_x(week_left_x(w), snap) is w, with snap true and with snap false.
C21_WeekRoundTrip == act.name = "week_from_x" => act.arg.back = act.arg.week
\* what holds: the round trip with snap true, and both with a whole label width
C21_SnappedRoundTrip ==
    (act.name = "week_from_x" /\ (act.arg.snap \/ act.arg.whole)) =>
        act.arg.back = act.arg.week
\* the rows a model is to show: every topic, in order, each followed by its
\* deliverables, in order, unless the topic is collapsed
RECURSIVE ListedRows(_, _)
ListedRows(tv, i) ==
    IF i > Len(tv) THEN <<>>
    ELSE <<[row_id |-> tv[i].id, kind |-> "topic"]>>
           \o (IF tv[i].collapsed THEN <<>>
               ELSE [j \in 1..Len(tv[i].deliverables) |->
                        [row_id |-> tv[i].deliverables[j].id, kind |-> "deliverable"]])
           \o ListedRows(tv, i + 1)
RECURSIVE HeightsAbove(_, _)
HeightsAbove(L, i) == IF i <= 1 THEN 0 ELSE L[i - 1].height + HeightsAbove(L, i - 1)

\* C22: after rebuild(model) the rows are the topic rows in topic order, each
\* followed by its deliverable rows in deliverable order unless the topic is
\* collapsed; every row starts where the rows above it end, the first at 0,
\* with the topic height or the deliverable height; total_height is the sum of
\* the heights; row_map and the row index hold exactly these rows.
C22_RebuildListsRows ==
    \A L \in {Layout}, listed \in {ListedRows(TopicsView(Model), 1)} :
        /\ Len(L) = Len(listed)
        /\ \A i \in 1..Len(L) :
               /\ L[i].row_id = listed[i].row_id
               /\ L[i].kind = listed[i].kind
               /\ L[i].height = (IF listed[i].kind = "topic" THEN TOPIC_ROW_HEIGHT
                                 ELSE DELIVERABLE_ROW_HEIGHT) * Scale
               /\ L[i].y = HeightsAbove(L, i)
               /\ row_index(L, L[i].row_id) = i
               /\ RowOf(L, L[i].row_id) = L[i]
        /\ total_height(L) = HeightsAbove(L, Len(L) + 1)
        /\ row_map(L) = {listed[i].row_id : i \in 1..Len(listed)}
\* a topic with deliverables was collapsed: its rows are gone, the topic after
\* it has moved up
C22_Witness ==
    /\ act.name = "toggle_topic_collapsed"
    /\ act.pushed = 1
    /\ Len(topics) >= 2
    /\ theap[topics[1]].collapsed
    /\ Len(dheap[theap[topics[1]].dl]) >= 2
    /\ Len(Layout) = Len(topics)
\* the rows a linear scan of the row table finds at y
RowsAt(L, scene_y) ==
    {L[i].row_id : i \in {j \in 1..Len(L) :
        /\ row_top_y(L, L[j].row_id) <= scene_y
        /\ scene_y < row_top_y(L, L[j].row_id) + row_height(L, L[j].row_id)}}

\* C23: row_at_y(y) is the id of the row r with row_top_y(r) <= y <
\* row_top_y(r) + row_height(r), and None when y is above the header bottom,
\* at or below the end of the last row, or there are no rows: the bisection
\* finds what a linear scan of the rows finds.
C23_RowAtYInvertsRows ==
    act.name = "row_at_y" =>
        /\ \A r \in RowsAt(Layout, act.arg.y) : act.arg.row = r
        /\ RowsAt(Layout, act.arg.y) = {} => act.arg.row = None
        /\ act.arg.y < HEADER_HEIGHT * Scale => act.arg.row = None
        /\ act.arg.y >= HEADER_HEIGHT * Scale + total_height(Layout) => act.arg.row = None
        /\ Len(Layout) = 0 => act.arg.row = None
\* the first height of a row that is not the first one
C23_Witness ==
    /\ act.name = "row_at_y"
    /\ \E i \in 2..Len(Layout) :
          /\ act.arg.y = row_top_y(Layout, Layout[i].row_id)
          /\ act.arg.row = Layout[i].row_id
\* no rows are left
C23_WitnessNoRows ==
    /\ act.name = "row_at_y"
    /\ Len(Layout) = 0
    /\ act.arg.y >= HEADER_HEIGHT * Scale
\* the places, topic and position, where a deliverable id is listed
PlacesOf(M, deliverable_id) ==
    UNION {{<<i, j>> : j \in {k \in 1..Len(Deliverables(M, M.topics[i])) :
                                Deliverables(M, M.topics[i])[k].id = deliverable_id}} :
           i \in 1..Len(M.topics)}
\* C24: in every state reached by add_deliverable, move_deliverable inside a
\* topic and across topics, remove_deliverable, remove_topic, undo and redo,
\* every deliverable id is listed by exactly one topic, exactly once.
C24_DeliverableListedOnce ==
    \A d \in DeliverableIds(Model) : Cardinality(PlacesOf(Model, d)) = 1
\* a deliverable was moved into the next topic and the move was undone
C24_Witness ==
    /\ act.name = "undo"
    /\ cursor < Len(stack)
    /\ Len(stack[cursor + 1]) = 1
    /\ stack[cursor + 1][1].type = "MoveDeliverableAcrossTopics"
    /\ PlacesOf(Model, stack[cursor + 1][1].deliverable_id) # {}
C25_OpenStep ==
    act'.name = "open_project" /\ act'.arg.schema_version # SCHEMA_VERSION =>
        /\ act'.arg.raised
        /\ ~act'.arg.constructed
        /\ UNCHANGED <<topics, theap, dheap, objects, classification, stack, cursor,
                       defaults>>
\* C25: loading data whose schema_version is not the supported one, or is
\* missing, raises before a model is constructed, and the failed open leaves
\* the current model, the controller and the undo log as they were.
C25_BadVersionFails == [][C25_OpenStep]_vars
\* a file without a schema version was refused while the log had entries
C25_Witness ==
    /\ act.name = "open_project"
    /\ act.arg.schema_version = None
    /\ act.arg.raised
    /\ cursor > 0
    /\ Len(topics) > 0
\* update_object has changed an object that links point to, and the object's
\* new anchor point is on the layout
TargetEdited ==
    /\ act'.name = "update_object"
    /\ act'.pushed > 0
    /\ HasObjIn(objects, act'.id)
    /\ LinksTo(objects, act'.id) # {}
    /\ object_anchor_point(Layout', GetObjIn(objects', act'.id)).ok
    /\ object_anchor_point(Layout', GetObjIn(objects', act'.id))
         # object_anchor_point(Layout, GetObjIn(objects, act'.id))
StoredOffset(link) ==
    [x |-> OrDefault(link.link_offset_x, 0), y |-> OrDefault(link.link_offset_y, 0)]
WrittenIds(entry) == {entry[i].old_obj.id : i \in 1..Len(entry)}
\* C26 as stated: when update_object edits the target of links, the cascade
\* recomputes and stores the offset (link_offset_x, link_offset_y) of every
\* link whose link_target_id is the edited object.
C26_RecomputeStep ==
    TargetEdited =>
        \A link \in LinksTo(objects, act'.id) : link.id \in WrittenIds(stack'[cursor'])
C26_FollowStep ==
    TargetEdited =>
        \A link \in LinksTo(objects, act'.id) :
            /\ link \in Range(objects')
            /\ link.id \notin WrittenIds(stack'[cursor'])
            /\ Near(RelativeAnchor(Layout', objects', link), StoredOffset(link))
LinksFrom(objs, source_id) ==
    {o \in Range(objs) :
        /\ o.kind = "link"
        /\ o.link_source_id = source_id
        /\ o.link_target_id # None
        /\ HasObjIn(objs, o.link_target_id)}
\* update_object, not deferred, has changed a textbox that links leave
SourceEdited ==
    /\ act'.name = "update_object"
    /\ act'.pushed > 0
    /\ HasObjIn(objects, act'.id)
    /\ GetObjIn(objects, act'.id).kind = "textbox"
    /\ LinksFrom(objects, act'.id) # {}
Resolvable(L, objs, link) ==
    object_anchor_point(L, GetObjIn(objs, link.link_target_id)).ok
\* C27: after a non-deferred update_object that moves or resizes a textbox T,
\* every link from T whose target exists and is on the layout stores an offset
\* within 0.01, on each axis, of anchor(T_new, side, offset) minus the target's
\* anchor point; a link whose recomputed offset is within 0.01 of the stored
\* one on both axes is not updated and adds no command.
C27_SourceStep ==
    SourceEdited =>
        \A link \in LinksFrom(objects, act'.id) :
            Resolvable(Layout', objects', link) =>
                /\ Near(StoredOffset(GetObjIn(objects', link.id)),
                        RelativeAnchor(Layout', objects', link))
                /\ Near(StoredOffset(link), RelativeAnchor(Layout', objects', link))
                     => /\ link.id \notin WrittenIds(stack'[cursor'])
                        /\ link \in Range(objects')
C27_SourceOffsetsFollow == [][C27_SourceStep]_vars
\* a linked textbox was moved and the offset of its link written with it
C27_Witness ==
    /\ act.name = "update_object"
    /\ act.pushed = 1
    /\ cursor > 0
    /\ Len(stack[cursor]) = 2
    /\ stack[cursor][1].old_obj.kind = "textbox"
    /\ stack[cursor][2].old_obj.kind = "link"
    /\ stack[cursor][2].new_obj.link_offset_x # stack[cursor][2].old_obj.link_offset_x
\* a linked textbox was resized on the side its link does not leave from: one
\* plain command
C27_WitnessUnchanged ==
    /\ act.name = "update_object"
    /\ act.pushed = 1
    /\ cursor > 0
    /\ Len(stack[cursor]) = 1
    /\ stack[cursor][1].old_obj.kind = "textbox"
    /\ stack[cursor][1].old_obj.width # stack[cursor][1].new_obj.width
    /\ \E link \in LinksFrom(objects, act.id) : Resolvable(Layout, objects, link)
\* the objects of objs other than the one with the id are in after as they are
OthersKept(before, after, id) ==
    /\ ObjIds(before) = ObjIds(after)
    /\ \A o \in Range(before) : o.id # id => o \in Range(after)
\* the sources of the links to the object are all in the set
SourcesIn(objs, target_id, ids) ==
    \A o \in Range(objs) :
        o.kind = "link" /\ o.link_target_id = target_id => o.link_source_id \in ids
\* the links a refresh of the textboxes looks at: their targets have an anchor
\* point on the layout
RefreshedLinks(L, objs, source_ids) ==
    {o \in Range(objs) :
        /\ o.kind = "link"
        /\ o.link_source_id \in source_ids
        /\ HasObjIn(objs, o.link_source_id)
        /\ GetObjIn(objs, o.link_source_id).kind = "textbox"
        /\ o.link_target_id # None
        /\ HasObjIn(objs, o.link_target_id)
        /\ Resolvable(L, objs, o)}
C28_DeferredCall(sel, call) ==
    call.called /\ call.after # call.before /\ SourcesIn(call.before, call.id, sel) =>
        /\ OthersKept(call.before, call.after, call.id)
        /\ Len(call.entries) = 1
        /\ Len(call.entries[1]) = 1
        /\ call.entries[1][1].old_obj.id = call.id
C28_Refresh(L, sel, r) ==
    r.called =>
        /\ \A link \in RefreshedLinks(L, r.after, sel) :
               Near(StoredOffset(link), RelativeAnchor(L, r.after, link))
        /\ Len(r.entries) <= 1
        /\ Len(r.entries) = 1 <=>
               \E link \in RefreshedLinks(L, r.before, sel) :
                   ~Near(StoredOffset(link), RelativeAnchor(L, r.before, link))
\* C28: update_object with defer_link_updates and with every linked source in
\* skip_anchor_sources changes the edited object only, no link offset and no
\* other textbox, and pushes one plain command; refresh_anchor_offsets on the
\* moved textboxes then brings every link from them within 0.01 of the
\* source's anchor minus the target's anchor point and pushes one macro if and
\* only if some offset was more than 0.01 away.
C28_DeferredThenRefreshed ==
    act.name = "nudge_selected" =>
        /\ \A i \in 1..Len(act.arg.calls) :
               C28_DeferredCall(act.arg.sel, act.arg.calls[i])
        /\ C28_Refresh(Layout, act.arg.sel, act.arg.refresh)
\* a linked textbox and a box that is not its target were moved together: the
\* refresh has pushed a macro
C28_Witness ==
    /\ act.name = "nudge_selected"
    /\ \E i \in 1..Len(act.arg.calls) :
          /\ act.arg.calls[i].called
          /\ Len(act.arg.calls[i].entries) = 1
          /\ act.arg.calls[i].entries[1][1].old_obj.kind = "textbox"
    /\ act.arg.refresh.called
    /\ Len(act.arg.refresh.entries) = 1
\* a linked textbox and its target were moved together: the refresh has
\* pushed nothing
C28_WitnessQuiet ==
    /\ act.name = "nudge_selected"
    /\ \A i \in 1..Len(act.arg.calls) : Len(act.arg.calls[i].entries) = 1
    /\ act.arg.refresh.called
    /\ RefreshedLinks(Layout, act.arg.refresh.after, act.arg.sel) # {}
    /\ Len(act.arg.refresh.entries) = 0
\* the object is drawn on rows and its row, or the row its arrow ends on, is
\* not a row of the layout
RowAbsent(L, obj) ==
    /\ obj.kind \notin {"textbox", "deadline", "link", "connector"}
    /\ \/ obj.row_id \notin row_map(L)
       \/ obj.kind = "arrow" /\ IfNone(obj.target_row_id, obj.row_id) \notin row_map(L)
OneCommandOn(entry, before, after, id) ==
    /\ Len(entry) = 1
    /\ entry[1].type = "UpdateObject"
    /\ entry[1].old_obj = GetObjIn(before, id)
    /\ entry[1].new_obj = GetObjIn(after, id)
    /\ entry[1].new_obj # entry[1].old_obj
    /\ OthersKept(before, after, id)
\* update_object has changed a link target that is off the layout after the edit
C29_TargetStep ==
    /\ act'.name = "update_object"
    /\ act'.pushed > 0
    /\ HasObjIn(objects, act'.id)
    /\ LinksTo(objects, act'.id) # {}
    /\ RowAbsent(Layout', GetObjIn(objects', act'.id))
    => OneCommandOn(stack'[cursor'], objects, objects', act'.id)
\* update_object has changed a textbox whose links all go to targets off the layout
C29_SourceStep ==
    /\ SourceEdited
    /\ \A link \in LinksFrom(objects, act'.id) :
          RowAbsent(Layout, GetObjIn(objects, link.link_target_id))
    => OneCommandOn(stack'[cursor'], objects, objects', act'.id)
C29_Step ==
    /\ \A obj \in Range(objects') :
          RowAbsent(Layout', obj) => ~object_anchor_point(Layout', obj).ok
    /\ C29_TargetStep
    /\ C29_SourceStep
\* C29: an object drawn on rows whose row_id, or whose arrow's target row, is
\* not in the layout has no anchor point, and update_object on such an object
\* that links point to, or on a textbox linked to it, completes: the edit is
\* applied as one command and nothing is cascaded for the target.
C29_UnresolvedTargetIsSkipped == [][C29_Step]_vars
\* a linked box under a collapsed topic was edited
C29_Witness ==
    /\ act.name = "update_object"
    /\ act.pushed = 1
    /\ LinksTo(objects, act.id) # {}
    /\ GetObjIn(objects, act.id).kind = "box"
    /\ RowAbsent(Layout, GetObjIn(objects, act.id))
\* a textbox linked to an arrow that ends under a collapsed topic was moved
C29_WitnessSource ==
    /\ act.name = "update_object"
    /\ act.pushed = 1
    /\ GetObjIn(objects, act.id).kind = "textbox"
    /\ \E link \in LinksFrom(objects, act.id) :
          /\ GetObjIn(objects, link.link_target_id).kind = "arrow"
          /\ GetObjIn(objects, link.link_target_id).row_id \in row_map(Layout)
          /\ RowAbsent(Layout, GetObjIn(objects, link.link_target_id))
\* the two ends of a link or connector
SourceId(obj) == IF obj.kind = "link" THEN obj.link_source_id ELSE obj.connector_source_id
TargetId(obj) == IF obj.kind = "link" THEN obj.link_target_id ELSE obj.connector_target_id
\* the end is on the layout
EndResolved(L, objs, obj, id) ==
    IF obj.kind = "link" THEN object_center_for_link(L, GetObjIn(objs, id)).ok
    ELSE object_bounds_for_connector(L, GetObjIn(objs, id)).ok
\* what the item's sync sets, given the connector's cache entry
Synced(L, objs, obj, cache) ==
    IF obj.kind = "link" THEN [path |-> link_sync(L, objs, obj), cache |-> cache]
    ELSE connector_sync(L, objs, obj, cache)
\* a link or connector with both ends on the layout, which the step has not
\* deleted and whose ends it has not deleted
KeptEdges ==
    {obj \in Range(objects) :
        /\ obj.kind \in {"link", "connector"}
        /\ obj \in Range(objects')
        /\ HasObjIn(objects, SourceId(obj)) /\ HasObjIn(objects, TargetId(obj))
        /\ HasObjIn(objects', SourceId(obj)) /\ HasObjIn(objects', TargetId(obj))
        /\ Synced(Layout, objects, obj, EmptyCache).path.drawn
        /\ EndResolved(Layout, objects, obj, SourceId(obj))
        /\ EndResolved(Layout, objects, obj, TargetId(obj))}
C30_EdgeStep(obj, before) ==
    \A after \in {Synced(Layout', objects', obj, before.cache).path} :
        /\ after.drawn
        /\ ~EndResolved(Layout', objects', obj, SourceId(obj))
             => after.start = before.path.start
        /\ ~EndResolved(Layout', objects', obj, TargetId(obj))
             => after.end = before.path.end
\* C30: a connector or link whose ends have been resolved keeps being drawn
\* while an end is off the layout, from the end's last resolved point, until
\* the end is on the layout again or is deleted, with one end off the layout
\* and with both.
C30_KeptStep ==
    \A obj \in KeptEdges :
        C30_EdgeStep(obj, Synced(Layout, objects, obj, EmptyCache))
C30_EdgesStayDrawn == [][C30_KeptStep]_vars
\* the same for the connectors of which one end stays on the layout
C30_OneEndStep ==
    \A obj \in KeptEdges :
        /\ obj.kind = "connector"
        /\ \/ EndResolved(Layout', objects', obj, SourceId(obj))
           \/ EndResolved(Layout', objects', obj, TargetId(obj))
        => C30_EdgeStep(obj, Synced(Layout, objects, obj, EmptyCache))
C30_OneEndStaysDrawn == [][C30_OneEndStep]_vars
\* a topic was collapsed over the target of a drawn link
C30_Witness ==
    /\ act.name = "toggle_topic_collapsed"
    /\ \E obj \in Range(objects) :
          /\ obj.kind = "link"
          /\ HasObjIn(objects, obj.link_target_id)
          /\ ~EndResolved(Layout, objects, obj, obj.link_target_id)
          /\ ~link_sync(Layout, objects, obj).drawn

\* ---- C31: the side offsets add_anchor_link and add_connector_arrow store ----
OffsetProfile == [AllProfile EXCEPT !.offsets = {-10, 0, 50, 100, 130}]

InitOffsets == InitWith({PlanDocument})

NextOffsets ==
    \/ AddAnchorLink(OffsetProfile)
    \/ AddConnectorArrow(OffsetProfile)
    \/ Undo
    \/ Redo

SpecOffsets == InitOffsets /\ [][NextOffsets]_vars

\* the link or connector the last call has added
AddedEdges ==
    {obj \in Range(objects) :
        \/ /\ act.name = "add_anchor_link"
           /\ obj.kind = "link"
           /\ obj.link_source_id = act.id /\ obj.link_target_id = act.arg.target
        \/ /\ act.name = "add_connector_arrow"
           /\ obj.kind = "connector"
           /\ obj.id = nextId
           /\ obj.connector_source_id = act.id
           /\ obj.connector_target_id = act.arg.target}
\* the side offsets an object stores
StoredOffsets(obj) ==
    IF obj.kind = "link" THEN {obj.link_source_offset}
    ELSE IF obj.kind = "connector"
         THEN {obj.connector_source_offset, obj.connector_target_offset}
         ELSE {}
\* C31: the offset add_anchor_link and add_connector_arrow store is the
\* requested offset clamped to [0, 1], for every requested number, 0 and 1
\* included, and every stored link and connector offset lies in [0, 1].
C31_StoredOffsetIsClamped ==
    /\ \A obj \in Range(objects) :
          obj.kind \in {"link", "connector"}
              => \A o \in StoredOffsets(obj) : 0 <= o /\ o <= Scale
    /\ act.name \in {"add_anchor_link", "add_connector_arrow"} /\ act.pushed > 0
          => \A obj \in AddedEdges : StoredOffsets(obj) = {ClampUnit(act.arg.offset)}
\* what holds: every stored offset lies in [0, 1], and a requested offset
\* other than 0 is stored clamped
C31_StoredOffsetInRange ==
    /\ \A obj \in Range(objects) :
          obj.kind \in {"link", "connector"}
              => \A o \in StoredOffsets(obj) : 0 <= o /\ o <= Scale
    /\ (/\ act.name \in {"add_anchor_link", "add_connector_arrow"}
        /\ act.pushed > 0
        /\ act.arg.offset # 0)
          => /\ AddedEdges # {}
             /\ \A obj \in AddedEdges : StoredOffsets(obj) = {ClampUnit(act.arg.offset)}
\* an offset of exactly 0 was requested and a link was added
C31_Witness ==
    /\ act.name = "add_anchor_link" /\ act.pushed > 0
    /\ act.arg.offset = 0
    /\ AddedEdges # {}

\* ---- C32: the point on a side of a rectangle, and the textbox behind a point ----
\* rectangles at and off the scene's origin, the four sides and a name that is
\* no side, and offsets at both ends of the side, inside it and outside [0, 1]
EdgeInputs ==
    [x : {0, 1250}, y : {0, 7300}, width : {120 * Scale, 36 * Scale},
     height : {40 * Scale, 28 * Scale},
     side : Sides \cup {"None"}, offset : {-20, 0, 25, 50, 100, 140}]

InitEdge == InitInput(EdgeInputs)

\* items._anchor_point_for_bounds on a plain rectangle, the controller's
\* _textbox_anchor_point on a textbox of the same rectangle, and
\* _textbox_pos_for_anchor on the point it returns
AnchorPoints ==
    /\ act.name = "init"
    /\ LET i == act.arg
           T == Replace(CanvasObject(1, "textbox", CANVAS_ROW_ID, 0, 0),
                        [x |-> i.x, y |-> i.y, width |-> i.width, height |-> i.height])
           anchor == textbox_anchor_point(T, i.side, i.offset)
       IN  Returned("anchor_point",
                    [input |-> i,
                     edge |-> anchor_point_for_bounds(Rect(i.x, i.y, i.width, i.height),
                                                      i.side, i.offset, "none"),
                     anchor |-> anchor,
                     back |-> textbox_pos_for_anchor(anchor.x, anchor.y, i.width,
                                                     i.height, i.side, i.offset)])

NextEdge == AnchorPoints

SpecEdge == InitEdge /\ [][NextEdge]_vars

\* the point at offset o of the side, by linear interpolation between the
\* side's two corners
Interpolated(i, o) ==
    IF i.side = "left" THEN Point(i.x, i.y + ((i.height * o) \div Scale))
    ELSE IF i.side = "top" THEN Point(i.x + ((i.width * o) \div Scale), i.y)
    ELSE IF i.side = "bottom"
    THEN Point(i.x + ((i.width * o) \div Scale), i.y + i.height)
    ELSE Point(i.x + i.width, i.y + ((i.height * o) \div Scale))
\* C32: for every offset o in [0, 1] the anchor on a plain rectangle is the
\* linear interpolation along the requested side, so that o = 0 is the side's
\* first corner and o = 1 its opposite corner, and the controller's textbox
\* position for the anchor point of a textbox is the textbox's own position.
C32_EdgeAnchorIsLinear ==
    act.name = "anchor_point" /\ act.arg.input.offset \in 0..Scale
        => /\ act.arg.edge = Interpolated(act.arg.input, act.arg.input.offset)
           /\ act.arg.back = Point(act.arg.input.x, act.arg.input.y)
\* what holds: the interpolation for every offset in (0, 1], and the round
\* trip for every offset
C32_EdgeAnchorLinearOffZero ==
    act.name = "anchor_point"
        => /\ act.arg.input.offset \in 1..Scale
              => /\ act.arg.edge = Interpolated(act.arg.input, act.arg.input.offset)
                 /\ act.arg.anchor = act.arg.edge
           /\ act.arg.back = Point(act.arg.input.x, act.arg.input.y)
\* the anchor at offset 0 of the left side was computed
C32_Witness ==
    /\ act.name = "anchor_point"
    /\ act.arg.input.offset = 0 /\ act.arg.input.side = "left"
    /\ act.arg.edge.y = act.arg.input.y + (act.arg.input.height \div 2)

\* ---- C33: sizes and opacities of the stored objects ----
\* sizes and opacities below, at, inside and above their bounds
GivenSizes == {0, 1, 3, 5, 9}
GivenOpacities == {-20, 0, 40, 100, 150}

SizeProfile ==
    [AllProfile EXCEPT !.noops = TRUE,
                       !.edits = {[size |-> size] : size \in GivenSizes}
                                 \cup {[opacity |-> opacity] : opacity \in GivenOpacities}]

\* objects whose size and opacity the caller chose
GivenObjects ==
    {[size |-> -3, opacity |-> 150], [size |-> 0, opacity |-> -20],
     [size |-> 1, opacity |-> 0], [size |-> 5, opacity |-> 100],
     [size |-> 9, opacity |-> 40]}

\* controller.add_object on an object whose size and opacity the caller chose
AddSizedObject(P) ==
    /\ CanCreate(P)
    /\ LET Call(S, fresh_id) ==
               \E kind \in P.kinds, given \in GivenObjects :
                   Commit(P, add_object(S, Replace(CanvasObject(fresh_id, kind,
                                                                CANVAS_ROW_ID,
                                                                MinWeek, MinWeek),
                                                   given)),
                          "add_object", fresh_id, given)
       IN  Call(Start, nextId + 1)

InitSized == InitWith({PlanDocument})

NextSized ==
    \/ AddSizedObject(SizeProfile)
    \/ EditObject(SizeProfile)
    \/ Undo
    \/ Redo

SpecSized == InitSized /\ [][NextSized]_vars

\* the bound of [lo, hi] nearest to v, or v inside the bounds
Nearest(lo, hi, v) == IF v < lo THEN lo ELSE IF v > hi THEN hi ELSE v
\* the last call was add_object or update_object and gave the field
Gave(field) ==
    /\ act.name \in {"add_object", "update_object"}
    /\ field \in DOMAIN act.arg
    /\ HasObjIn(objects, act.id)
\* C33: in every state that controller operations, undo and redo reach, every
\* stored object has a size in [1, 5] and an opacity in [0, 1]; add_object and
\* update_object accept a size or opacity outside the bounds and store the
\* bound nearest to it.
C33_SizeAndOpacityClamped ==
    /\ \A obj \in Range(objects) :
          /\ obj.size \in 1..5
          /\ obj.opacity \in 0..Scale
    /\ act.name = "add_object" => act.pushed = 1 /\ HasObjIn(objects, act.id)
    /\ Gave("size")
          => GetObjIn(objects, act.id).size = Nearest(1, 5, act.arg.size)
    /\ Gave("opacity")
          => GetObjIn(objects, act.id).opacity = Nearest(0, Scale, act.arg.opacity)
\* an object was added with a size above 5 and one was given an opacity below 0
C33_Witness ==
    /\ act.name = "update_object" /\ act.pushed = 1
    /\ "opacity" \in DOMAIN act.arg /\ act.arg.opacity < 0
    /\ GetObjIn(objects, act.id).opacity = 0
    /\ \E obj \in Range(objects) : obj.id > 6 /\ obj.size = 5

\* ---- C34: a move of a deliverable and the opposite move ----
HopProfile == [AllProfile EXCEPT !.stack = MaxStack + 1, !.noops = TRUE]

\* controller.move_deliverable with any direction
MoveDeliverableBy(P) ==
    /\ CanPush(P)
    /\ LET Call(S) ==
               \E id \in Candidates(P, DeliverableIds(Model)),
                  direction \in {-2, -1, 0, 1, 2} :
                   Commit(P, move_deliverable(S, id, direction), "move_deliverable",
                          id, direction)
       IN  Call(Start)

InitHop == InitWith({PlanDocument})

NextHop ==
    \/ MoveDeliverableBy(HopProfile)
    \/ Undo
    \/ Redo

SpecHop == InitHop /\ [][NextHop]_vars

\* the deliverable is the first of the first topic, or the last of the last
AtTop(M, d) == <<1, 1>> \in PlacesOf(M, d)
AtBottom(M, d) ==
    <<Len(M.topics), Len(Deliverables(M, M.topics[Len(M.topics)]))>> \in PlacesOf(M, d)
\* the opposite move right after a move that returned true
C34_OppositeStep ==
    /\ act.name = "move_deliverable" /\ act.pushed = 1
    /\ act'.name = "move_deliverable"
    /\ act'.id = act.id /\ act'.arg = -act.arg
    => /\ act'.pushed = 1
       /\ View(Model)' = preView
\* a move that returned false
C34_RefusedStep ==
    act'.name = "move_deliverable" /\ act'.pushed = 0
    => /\ UNCHANGED <<topics, theap, dheap, objects, classification, stack, cursor>>
       /\ \/ act'.arg < 0 /\ AtTop(Model, act'.id)
          \/ act'.arg > 0 /\ AtBottom(Model, act'.id)
          \/ act'.arg = 0
\* a move at the top going up, at the bottom going down or with direction 0
\* returns false
C34_EdgeStep ==
    /\ act'.name = "move_deliverable"
    /\ \/ act'.arg < 0 /\ AtTop(Model, act'.id)
       \/ act'.arg > 0 /\ AtBottom(Model, act'.id)
       \/ act'.arg = 0
    => act'.pushed = 0
C34_Step == C34_OppositeStep /\ C34_RefusedStep /\ C34_EdgeStep
\* C34: whenever move_deliverable(d, dir) returns true, an immediate
\* move_deliverable(d, -dir) returns true too and puts d back in its topic at
\* its index with all other deliverables in their order; move_deliverable
\* returns false, and changes nothing, only for the first deliverable of the
\* first topic going up, the last of the last topic going down and dir = 0.
C34_OppositeMoveRestores == [][C34_Step]_vars
\* a deliverable has hopped to the end of the topic above and back
C34_Witness ==
    /\ act.name = "move_deliverable" /\ act.pushed = 1 /\ act.arg > 0
    /\ cursor >= 2
    /\ stack[cursor][1].type = "MoveDeliverableAcrossTopics"
    /\ stack[cursor - 1][1].type = "MoveDeliverableAcrossTopics"
    /\ stack[cursor - 1][1].deliverable_id = act.id
    /\ stack[cursor - 1][1].target_index > 0
\* a move of the first deliverable of the first topic going up was refused
C34_WitnessRefused ==
    /\ act.name = "move_deliverable" /\ act.pushed = 0 /\ act.arg < 0
    /\ AtTop(Model, act.id)

\* ---- C35: arrows attached to two objects ----
\* view._anchor_point_for_item on an item without an anchor of its own: the
\* point at the offset of the side of the item's bounds
anchor_point_for_item(bounds, side, offset) ==
    LET width == Max2(Scale, bounds.width)
        height == Max2(Scale, bounds.height)
    IN  IF side = "left" THEN Point(bounds.x, bounds.y + ((height * offset) \div 100))
        ELSE IF side = "top" THEN Point(bounds.x + ((width * offset) \div 100), bounds.y)
        ELSE IF side = "bottom"
        THEN Point(bounds.x + ((width * offset) \div 100), bounds.y + bounds.height)
        ELSE Point(bounds.x + bounds.width, bounds.y + ((height * offset) \div 100))

\* the arrow view._finish_arrow_drag adds between two objects of the scene
attached_arrow(T, L, source_id, target_id, side, offset, fresh_id) ==
    LET source_obj == GetObjIn(T.M.objects, source_id)
        target_obj == GetObjIn(T.M.objects, target_id)
        start_point == anchor_point_for_item(object_bounds_for_connector(L, source_obj),
                                             side, offset)
        end_point == anchor_point_for_item(object_bounds_for_connector(L, target_obj),
                                           side, offset)
        start_week == week_from_x_floor(start_point.x)
        target_week == week_from_x_floor(end_point.x)
        row_id == IF source_obj.row_id \in row_map(L) THEN source_obj.row_id
                  ELSE IF target_obj.row_id \in row_map(L) THEN target_obj.row_id
                  ELSE CANVAS_ROW_ID
        target_row == IF target_obj.row_id \in row_map(L) THEN target_obj.row_id
                      ELSE row_id
    IN  Replace(make_default_object(T.M, fresh_id, "arrow", row_id, start_week,
                                    target_week),
                [target_row_id |-> target_row, target_week |-> target_week,
                 end_week |-> target_week,
                 color |-> T.defaults.arrow_color, size |-> T.defaults.arrow_size,
                 connector_source_id |-> source_id, connector_target_id |-> target_id,
                 connector_source_side |-> side, connector_source_offset |-> offset,
                 connector_target_side |-> side, connector_target_offset |-> offset])

\* an arrow is dragged from the edge of one drawn object onto another
FinishArrowDrag(P) ==
    /\ CanCreate(P)
    /\ LET Call(S, L, fresh_id, ids) ==
               \E source_id \in ids, target_id \in ids,
                  side \in P.sides, offset \in P.offsets :
                   /\ target_id # source_id
                   /\ object_bounds_for_connector(L, GetObjIn(S.M.objects, source_id)).ok
                   /\ object_bounds_for_connector(L, GetObjIn(S.M.objects, target_id)).ok
                   /\ Commit(P, add_object(S, attached_arrow(S, L, source_id, target_id,
                                                             side, offset, fresh_id)),
                             "finish_arrow_drag", fresh_id,
                             [source |-> source_id, target |-> target_id])
       IN  Call(Start, Layout, nextId + 1,
                {id \in ObjIds(objects) :
                    GetObjIn(objects, id).kind \notin {"link", "connector", "textbox"}})

InitAttach == InitWith({AnchorDocument})

NextAttach ==
    \/ FinishArrowDrag(AllProfile)
    \/ RemoveObject(AllProfile)
    \/ RemoveDeliverable(AllProfile)
    \/ RemoveTopic(AllProfile)
    \/ Undo
    \/ Redo

SpecAttach == InitAttach /\ [][NextAttach]_vars

\* the objects an object is attached to as a connector
ConnectorEnds(obj) == {obj.connector_source_id, obj.connector_target_id} \ {None}
\* C35: in every state that controller operations (remove_object, remove_topic
\* and remove_deliverable on an endpoint among them), undo and redo reach, an
\* object whose connector_source_id or connector_target_id is set refers to
\* objects that are in the model.
C35_NoDanglingArrow ==
    \A obj \in Range(objects) : \A id \in ConnectorEnds(obj) : HasObjIn(objects, id)
\* what holds: the same for the objects of kind connector
C35_NoDanglingConnector ==
    \A obj \in Range(objects) :
        obj.kind = "connector" => \A id \in ConnectorEnds(obj) : HasObjIn(objects, id)
\* an arrow attached to two boxes is in the model and one of the boxes is not
C35_Witness ==
    /\ act.name = "remove_object"
    /\ \E obj \in Range(objects) :
          /\ obj.kind = "arrow"
          /\ act.id \in ConnectorEnds(obj)

\* ---- C36: the anchor point of the controller and the centre the scene draws ----
\* one object of every kind, moved by weeks and rows, under rows that are
\* collapsed, expanded and removed and a label column that is resized
InitCentre == InitWith({KindsDocument})

NextCentre ==
    \/ ToggleTopicCollapsed(AllProfile)
    \/ RemoveDeliverable(AllProfile)
    \/ MoveObject(LinkProfile)
    \/ LabelResize(AllProfile)
    \/ Undo
    \/ Redo

SpecCentre == InitCentre /\ [][NextCentre]_vars

\* the kinds of objects a link can end on
LinkableKinds == {"textbox", "milestone", "circle", "deadline", "arrow", "box", "text"}
\* C36: the controller's _object_anchor_point(obj) and the items'
\* _object_center_for_link(obj, layout) are the same point, or both are
\* unavailable, for an object of every kind (textbox, milestone, circle,
\* deadline, arrow, box, text) under every layout.
C36_SameAnchorPoint ==
    \A obj \in Range(objects) :
        obj.kind \in LinkableKinds
            => object_anchor_point(Layout, obj) = object_center_for_link(Layout, obj)
\* what holds: the same for every kind but deadline
C36_SameAnchorPointOffDeadline ==
    \A obj \in Range(objects) :
        obj.kind \in LinkableKinds \ {"deadline"}
            => object_anchor_point(Layout, obj) = object_center_for_link(Layout, obj)
\* a deadline is in the plan, and an object whose row is collapsed
C36_Witness ==
    /\ \E obj \in Range(objects) : obj.kind = "deadline"
    /\ \E obj \in Range(objects) :
          /\ obj.kind = "box"
          /\ ~object_anchor_point(Layout, obj).ok
          /\ ~object_center_for_link(Layout, obj).ok

\* ---- C37: the drawing order after a removal is undone ----
\* the drawing order before a call, and whether two objects shared a z-index
OrderBefore(M) ==
    [order |-> ordered_object_ids(M),
     ties |-> \E i \in 1..Len(M.objects), j \in 1..Len(M.objects) :
                  i # j /\ M.objects[i].z_index = M.objects[j].z_index]

\* the removals, with the drawing order they found
RemoveObjectOrdered(P) ==
    /\ CanPush(P)
    /\ LET Call(S) ==
               \E id \in Candidates(P, ObjIds(objects)) :
                   Commit(P, remove_object(S, id), "remove_object", id, OrderBefore(S.M))
       IN  Call(Start)

RemoveDeliverableOrdered(P) ==
    /\ CanPush(P)
    /\ LET Call(S) ==
               \E id \in Candidates(P, DeliverableIds(Model)) :
                   Commit(P, remove_deliverable(S, id), "remove_deliverable", id,
                          OrderBefore(S.M))
       IN  Call(Start)

RemoveTopicOrdered(P) ==
    /\ CanPush(P)
    /\ LET Call(S) ==
               \E id \in Candidates(P, TopicIds(Model)) :
                   Commit(P, remove_topic(S, id), "remove_topic", id, OrderBefore(S.M))
       IN  Call(Start)

InitStacking == InitWith({LinkedDocument, PlanDocument})

NextStacking ==
    \/ RemoveObjectOrdered(AllProfile)
    \/ RemoveDeliverableOrdered(AllProfile)
    \/ RemoveTopicOrdered(AllProfile)
    \/ AddObject(AllProfile)
    \/ Undo
    \/ Redo

SpecStacking == InitStacking /\ [][NextStacking]_vars

\* an undo right after a removal that removed objects
RemovalUndone ==
    /\ act.name \in {"remove_object", "remove_deliverable", "remove_topic"}
    /\ act.pushed = 1
    /\ Len(objects) < Len(act.arg.order)
    /\ act'.name = "undo"
C37_UndoStep == RemovalUndone => ordered_object_ids(Model') = act.arg.order
\* C37: after remove_object, remove_topic or remove_deliverable followed by
\* undo, the total order by (z_index, insertion order) over all objects is the
\* one before the removal, also when several objects share a z-index.
C37_UndoRestoresOrder == [][C37_UndoStep]_vars
\* what holds: the objects are the ones before the removal, and their order is
\* the one before the removal when no two objects shared a z-index
C37_PlainStep ==
    RemovalUndone =>
        /\ ObjIds(objects') = Range(act.arg.order)
        /\ ~act.arg.ties => ordered_object_ids(Model') = act.arg.order
C37_UndoRestoresOrderWithoutTies == [][C37_PlainStep]_vars
\* the removal of a box with a link and a connector below it, both at one
\* z-index, was undone
C37_Witness ==
    /\ act.name = "undo"
    /\ cursor < Len(stack)
    /\ Len(stack[cursor + 1]) = 3
    /\ \A i \in 1..3 : stack[cursor + 1][i].type = "RemoveObject"
    /\ \E obj \in Range(objects), other \in Range(objects) :
          /\ obj.kind = "link" /\ other.kind = "connector"
          /\ obj.z_index = other.z_index

\* ---- C38: the rows of the objects ----
\* rows are added, moved between topics, collapsed and removed while arrows and
\* boxes are created on rows of the layout and moved to rows of the layout
OrphanProfile ==
    [AllProfile EXCEPT !.kinds = {"arrow", "box"}, !.spans = {1},
                       !.nudges = {<<0, 1>>, <<0, -1>>}]

InitOrphan == InitWith({KindsDocument})

NextOrphan ==
    \/ AddTopic(OrphanProfile)
    \/ AddDeliverable(OrphanProfile)
    \/ MoveDeliverable(OrphanProfile)
    \/ RemoveDeliverable(OrphanProfile)
    \/ RemoveTopic(OrphanProfile)
    \/ ToggleTopicCollapsed(OrphanProfile)
    \/ AddObject(OrphanProfile)
    \/ MoveObject(OrphanProfile)
    \/ FinishArrowDrag(OrphanProfile)
    \/ Undo
    \/ Redo

SpecOrphan == InitOrphan /\ [][NextOrphan]_vars

\* the canvas row and the rows of the topics and deliverables of the model
RowIds(M) == {CANVAS_ROW_ID} \cup TopicIds(M) \cup DeliverableIds(M)
\* C38: in every state that controller operations, undo and redo reach while
\* objects are only created on, or moved to, rows that exist at that moment,
\* the row_id of every object is the canvas row id or the id of a topic or
\* deliverable of the model, and so is the target_row_id of every arrow;
\* across moves of deliverables between topics, collapsing, removal of topics
\* and deliverables and their undo.
C38_NoOrphanObjects ==
    \A obj \in Range(objects) :
        /\ obj.row_id \in RowIds(Model)
        /\ obj.kind = "arrow" /\ obj.target_row_id # None
              => obj.target_row_id \in RowIds(Model)
\* a deliverable row an arrow ended on was removed while the arrow's own row stays
C38_Witness ==
    /\ act.name = "remove_deliverable" /\ act.pushed = 1
    /\ \E o \in Range(stack[cursor][1].removed_objects) :
          /\ o.kind = "arrow"
          /\ o.target_row_id = act.id
          /\ o.row_id \in RowIds(Model)
\* the removal of a topic under which a deliverable had been moved was undone
C38_WitnessUndo ==
    /\ act.name = "undo"
    /\ cursor = 1 /\ Len(stack) = 2
    /\ stack[1][1].type = "MoveDeliverableAcrossTopics"
    /\ stack[2][1].type = "RemoveTopic"
    /\ stack[2][1].removed_objects # <<>>

\* ---- C39: the links of a textbox ----
\* the links that name the textbox as their source
LinksOfSource(objs, source_id) ==
    {o \in Range(objs) : o.kind = "link" /\ o.link_source_id = source_id}
\* C39: a textbox is the source of at most one link: in every state that
\* controller operations reach, duplicate_object on any selectable object
\* among them, no two links have the same link_source_id.
C39_OneLinkPerSource ==
    \A a \in Range(objects), b \in Range(objects) :
        a.kind = "link" /\ b.kind = "link" /\ a.link_source_id = b.link_source_id
            => a.id = b.id
\* what holds: add_anchor_link leaves the new link as the only link from its
\* source, in one entry that ends with the command adding it
C39_RelinkStep ==
    act'.name = "add_anchor_link" /\ act'.pushed > 0
    => /\ act'.pushed = 1
       /\ Cardinality(LinksOfSource(objects', act'.id)) = 1
       /\ \A link \in LinksOfSource(objects', act'.id) :
             /\ link.link_target_id = act'.arg.target
             /\ link \notin Range(objects)
       /\ Len(stack'[cursor']) = Cardinality(LinksOfSource(objects, act'.id)) + 1
C39_RelinkReplaces == [][C39_RelinkStep]_vars
\* a link was duplicated
C39_Witness ==
    /\ act.name = "duplicate_object" /\ act.pushed = 1
    /\ GetObjIn(objects, act.id).kind = "link"
    /\ HasObjIn(objects, act.arg)
    /\ GetObjIn(objects, act.arg).link_source_id = GetObjIn(objects, act.id).link_source_id

\* ---- C40: edits of a link target that leave its geometry alone ----
PaintProfile ==
    [AllProfile EXCEPT !.edits = {[color |-> DEFAULT_TOPIC_COLORS[2]],
                                  [text_html |-> "<b>x</b>"]}]

\* a linked box is recoloured, given a text and reordered, after the rows above
\* it were added, removed, moved and collapsed
InitPaint == InitWith({LinkedDocument})

NextPaint ==
    \/ EditObject(PaintProfile)
    \/ ReorderObjects(PaintProfile)
    \/ AddDeliverable(PaintProfile)
    \/ MoveDeliverable(PaintProfile)
    \/ RemoveDeliverable(PaintProfile)
    \/ ToggleTopicCollapsed(PaintProfile)
    \/ Undo
    \/ Redo

SpecPaint == InitPaint /\ [][NextPaint]_vars

\* the textboxes stay where they are
TextboxesStay ==
    \A obj \in Range(objects) :
        obj.kind = "textbox" /\ HasObjIn(objects', obj.id)
            => /\ GetObjIn(objects', obj.id).x = obj.x
               /\ GetObjIn(objects', obj.id).y = obj.y
\* update_object has changed the colour or the text of an object, or
\* reorder_objects has written z-indices
PaintStep ==
    \/ /\ act'.name = "update_object"
       /\ act'.pushed > 0
       /\ DOMAIN act'.arg \subseteq {"color", "text_html"}
    \/ act'.name = "reorder_objects" /\ act'.pushed > 0
C40_Step ==
    PaintStep =>
        /\ TextboxesStay
        /\ act'.name = "update_object" => OthersKept(objects, objects', act'.id)
\* C40: an update_object that changes only fields of a link target that are
\* no geometry (its colour, its text, the z_index reorder_objects writes) moves
\* no textbox: in every reachable state, also after rows above the target were
\* added, removed, reordered or collapsed since the link was created, the x and
\* y of every textbox linked to the target are the same before and after the
\* edit, and only the edited object changes.
C40_PaintMovesNoTextbox == [][C40_Step]_vars
\* what holds: the same while every link stores the offset its textbox has
C40_FreshStep ==
    /\ PaintStep
    /\ \A link \in Range(objects) :
          link.kind = "link" /\ Resolvable(Layout, objects, link)
              => StoredOffset(link) = RelativeAnchor(Layout, objects, link)
    => /\ TextboxesStay
       /\ act'.name = "update_object" => OthersKept(objects, objects', act'.id)
C40_PaintMovesNoTextboxWhenFresh == [][C40_FreshStep]_vars
\* the target of a link was recoloured after a row above it was removed
C40_Witness ==
    /\ act.name = "update_object" /\ act.pushed = 1
    /\ "color" \in DOMAIN act.arg
    /\ LinksTo(objects, act.id) # {}
    /\ cursor = 2
    /\ stack[1][1].type = "RemoveDeliverable"
====
